---- MODULE Spec2Model ----
(***************************************************************************)
(* A model of jma-data-mcp: the AMeDAS station directory (stations.py),    *)
(* the observation decoder and the latest-data-time computation            *)
(* (weather.py), and the tool-call handler built on them (server.py).      *)
(*                                                                         *)
(* Representation.                                                         *)
(*   - A Python str is a sequence of one-character strings.                *)
(*   - A Python dict that is iterated is a sequence of [key, value]        *)
(*     entries in insertion order.                                         *)
(*   - Latitudes and longitudes are integers in tenths of a degree.        *)
(*   - Real numbers of the distance computation are fixed-point integers   *)
(*     with Scale units per 1 (radians, sines, kilometres); distance_km,   *)
(*     which the code rounds to two decimals, is an integer number of      *)
(*     hundredths of a kilometre.                                          *)
(*   - Observation values are integers in tenths of the unit.              *)
(***************************************************************************)
EXTENDS Integers, Sequences, FiniteSets, TLC

VARIABLES
    stations_cache,   \* stations.py: _stations_cache (None or the loaded dict)
    call,             \* the operation last called, with its arguments
    ret,              \* what that call returned
    inflight          \* the per-timestamp fetches of a running time-series call

vars == <<stations_cache, call, ret, inflight>>

\* Python's None, and the outcome of a call that raised: records, as every
\* value they are compared with is one.
None == [t |-> "None"]
Raised(exc) == [t |-> "raised", exc |-> exc]
IsRaised(v) == "exc" \in DOMAIN v

(***************************************************************************)
(* Fixed-point arithmetic for math.radians, math.sin, math.cos, math.sqrt  *)
(* and math.asin.                                                          *)
(***************************************************************************)
Scale == 10^4

Abs(x) == IF x < 0 THEN -x ELSE x

\* Division truncating toward zero, so that Div(-a, b) = -Div(a, b).
Div(a, b) == IF a < 0 THEN -((-a) \div b) ELSE a \div b

\* The product of two fixed-point numbers.
Mul(a, b) == Div(a * b, Scale)

\* math.radians of an angle given in tenths of a degree: x * pi / 180.
Radians(tenths) == Div(tenths * 31416, 1800)

\* math.sin, by its Taylor polynomial to the ninth power.
Sin(x) ==
    LET x2 == Mul(x, x)
        x3 == Mul(x2, x)
        x5 == Mul(x3, x2)
        x7 == Mul(x5, x2)
        x9 == Mul(x7, x2)
    IN  x - Div(x3, 6) + Div(x5, 120) - Div(x7, 5040) + Div(x9, 362880)

\* math.cos, by its Taylor polynomial to the eighth power.
Cos(x) ==
    LET x2 == Mul(x, x)
        x4 == Mul(x2, x2)
        x6 == Mul(x4, x2)
        x8 == Mul(x4, x4)
    IN  Scale - Div(x2, 2) + Div(x4, 24) - Div(x6, 720) + Div(x8, 40320)

RECURSIVE SqrtSearch(_, _, _)
SqrtSearch(n, lo, hi) ==
    IF lo >= hi THEN lo
    ELSE LET mid == (lo + hi + 1) \div 2
         IN  IF mid * mid <= n THEN SqrtSearch(n, mid, hi)
             ELSE SqrtSearch(n, lo, mid - 1)

\* math.sqrt of a number carried with Scale * Scale units per 1; the root has
\* Scale units per 1.
Sqrt2(n) == SqrtSearch(n, 0, 2 * Scale)

\* math.asin, by its series to the seventh power.
Asin(s) ==
    LET s2 == Mul(s, s)
        s3 == Mul(s2, s)
        s5 == Mul(s3, s2)
        s7 == Mul(s5, s2)
    IN  s + Div(s3, 6) + Div(3 * s5, 40) + Div(15 * s7, 336)

\* round(x, 2) of a distance with Scale units per kilometre: the nearest
\* hundredth, a tie going to the even one.
Round2(d) ==
    LET unit == Scale \div 100
        q == d \div unit
        r == d % unit
    IN  IF 2 * r > unit \/ (2 * r = unit /\ q % 2 = 1) THEN q + 1 ELSE q

(***************************************************************************)
(* The bundled dataset amedas_stations.json, as json.load returns it: a    *)
(* dict from station code to record, in file order.                        *)
(***************************************************************************)
StationRecord(code, ja, kana, en, lat, lon, type) ==
    [code |-> code, name |-> [ja |-> ja, kana |-> kana, en |-> en],
     location |-> [lat |-> lat, lon |-> lon], type |-> type]

STATIONS_FILE ==
    << [key |-> "14163",
        value |-> StationRecord("14163", <<"sat", "poro">>, <<"SA", "TU", "PO", "RO">>,
                                <<"S", "a", "p", "p", "o", "r", "o">>, 431, 1413, "A")],
       [key |-> "45212",
        value |-> StationRecord("45212", <<"chi", "ba">>, <<"TI", "BA">>,
                                <<"C", "h", "i", "b", "a">>, 357, 1400, "B")],
       [key |-> "44132",
        value |-> StationRecord("44132", <<"tou", "kyo">>, <<"TO", "U", "KI", "YO", "U">>,
                                <<"T", "o", "k", "y", "o">>, 357, 1398, "A")],
       [key |-> "46106",
        value |-> StationRecord("46106", <<"yoko", "hama">>, <<"YO", "KO", "HA", "MA">>,
                                <<"Y", "o", "k", "o", "h", "a", "m", "a">>, 354, 1397, "A")],
       [key |-> "62078",
        value |-> StationRecord("62078", <<"oo", "saka">>, <<"O", "O", "SA", "KA">>,
                                <<"O", "s", "a", "k", "a">>, 347, 1355, "C")] >>

\* dict.values(): the values in insertion order.
Values(d) == [i \in 1..Len(d) |-> d[i].value]

\* The keys of a dict.
Keys(d) == {d[i].key : i \in 1..Len(d)}

\* dict.get(key): the value stored under key, None without one.
DictGet(d, key) ==
    IF key \in Keys(d)
    THEN (CHOOSE e \in {d[i] : i \in 1..Len(d)} : e.key = key).value
    ELSE None

\* load_stations: the cache is filled from the file on the first call only.
load_stations(cache) == IF cache = None THEN STATIONS_FILE ELSE cache

\* dict[key]: as dict.get, but a missing key raises KeyError.
DictIndex(d, key) ==
    IF key \in Keys(d) THEN DictGet(d, key) ELSE Raised("KeyError")

get_station_indexing(cache, code) == DictIndex(load_stations(cache), code)

\* get_station.
get_station(cache, code) == DictGet(load_stations(cache), code)

(***************************************************************************)
(* search_stations_by_name.                                                *)
(***************************************************************************)
\* str.lower() of one character.
LowerChar(c) ==
    CASE c = "T" -> "t" [] c = "O" -> "o" [] c = "K" -> "k" [] c = "S" -> "s"
      [] c = "C" -> "c" [] c = "Y" -> "y" [] OTHER -> c

\* str.lower().
Lower(s) == [i \in 1..Len(s) |-> LowerChar(s[i])]

\* Python's "sub in s" for strings.
Contains(sub, s) ==
    \E i \in 0..(Len(s) - Len(sub)) :
        \A j \in 1..Len(sub) : s[i + j] = sub[j]

NameMatches_cased(name, station) ==
    \/ Contains(name, station.name.ja)
    \/ Contains(name, station.name.kana)
    \/ Contains(name, station.name.en)

\* The test of lines 35-37.
NameMatches(name, station) ==
    \/ Contains(name, station.name.ja)
    \/ Contains(name, station.name.kana)
    \/ Contains(Lower(name), Lower(station.name.en))

\* Lines 34-38: the loop over the directory, appending each match.
RECURSIVE CollectByName(_, _)
CollectByName(stations, name) ==
    IF stations = << >> THEN << >>
    ELSE IF NameMatches(name, Head(stations))
         THEN <<Head(stations)>> \o CollectByName(Tail(stations), name)
         ELSE CollectByName(Tail(stations), name)

search_stations_by_name(cache, name) ==
    CollectByName(Values(load_stations(cache)), name)

(***************************************************************************)
(* search_stations_by_location.                                            *)
(***************************************************************************)
EARTH_RADIUS == 6371

\* Lines 59-70: the haversine distance, with Scale units per kilometre.
Haversine(lat, lon, station_lat, station_lon) ==
    LET lat1 == Radians(lat)
        lon1 == Radians(lon)
        lat2 == Radians(station_lat)
        lon2 == Radians(station_lon)
        dlat == lat2 - lat1
        dlon == lon2 - lon1
        sdlat == Sin(Div(dlat, 2))
        sdlon == Sin(Div(dlon, 2))
        a == sdlat * sdlat + Mul(Mul(Cos(lat1), Cos(lat2)), sdlon) * sdlon
        c == 2 * Asin(Sqrt2(a))
    IN  EARTH_RADIUS * c

WithinRadius_strict(distance, radius_km) == distance < radius_km

\* Line 72: the test that keeps a station.
WithinRadius(distance, radius_km) == distance <= radius_km

\* Lines 73-74: a copy of the record with distance_km added.
Annotate(station, distance) ==
    [code |-> station.code, name |-> station.name, location |-> station.location,
     type |-> station.type, distance_km |-> Round2(distance)]

RECURSIVE InsertByDistance_unstable(_, _)
InsertByDistance_unstable(sorted, x) ==
    IF sorted = << >> THEN <<x>>
    ELSE IF Head(sorted).distance_km < x.distance_km
         THEN <<Head(sorted)>> \o InsertByDistance_unstable(Tail(sorted), x)
         ELSE <<x>> \o sorted

\* The place list.sort gives x among the already sorted elements: behind every
\* element whose key is not larger (the sort is stable).
RECURSIVE InsertByDistance(_, _)
InsertByDistance(sorted, x) ==
    IF sorted = << >> THEN <<x>>
    ELSE IF Head(sorted).distance_km <= x.distance_km
         THEN <<Head(sorted)>> \o InsertByDistance(Tail(sorted), x)
         ELSE <<x>> \o sorted

\* Line 78: results.sort(key=lambda x: x["distance_km"]).
RECURSIVE SortByDistance(_)
SortByDistance(results) ==
    IF results = << >> THEN << >>
    ELSE InsertByDistance(SortByDistance(SubSeq(results, 1, Len(results) - 1)),
                          results[Len(results)])

\* Lines 54-75: the loop over the directory.
RECURSIVE CollectNearby(_, _, _, _)
CollectNearby(stations, lat, lon, radius_km) ==
    IF stations = << >> THEN << >>
    ELSE LET station == Head(stations)
             distance == Haversine(lat, lon, station.location.lat, station.location.lon)
             rest == CollectNearby(Tail(stations), lat, lon, radius_km)
         IN  IF WithinRadius(distance, radius_km)
             THEN <<Annotate(station, distance)>> \o rest
             ELSE rest

search_stations_by_location(cache, lat, lon, radius_km) ==
    SortByDistance(CollectNearby(Values(load_stations(cache)), lat, lon, radius_km))

\* The directory after the search had line 74 written distance_km into the
\* station of the directory itself.
stations_after_search_inplace(cache, lat, lon, radius_km) ==
    [i \in 1..Len(load_stations(cache)) |->
        LET entry == load_stations(cache)[i]
            distance == Haversine(lat, lon, entry.value.location.lat,
                                  entry.value.location.lon)
        IN  IF WithinRadius(distance, radius_km)
            THEN [key |-> entry.key, value |-> Annotate(entry.value, distance)]
            ELSE entry]

\* The directory after the search: line 50 loads it, and line 73 copies each
\* station before line 74 writes to the copy, so no record of it is written.
stations_after_search(cache, lat, lon, radius_km) == load_stations(cache)

\* get_stations_by_type: the list comprehension of line 85.
RECURSIVE CollectByType(_, _)
CollectByType(stations, station_type) ==
    IF stations = << >> THEN << >>
    ELSE IF Head(stations).type = station_type
         THEN <<Head(stations)>> \o CollectByType(Tail(stations), station_type)
         ELSE CollectByType(Tail(stations), station_type)

get_stations_by_type(cache, station_type) ==
    CollectByType(Values(load_stations(cache)), station_type)

\* get_all_stations.
get_all_stations(cache) == Values(load_stations(cache))

(***************************************************************************)
(* server.py, call_tool: list_all_stations.                                *)
(***************************************************************************)
Min(a, b) == IF a < b THEN a ELSE b
Max(a, b) == IF a > b THEN a ELSE b

\* A slice index as Python clamps it: a negative one counts from the end.
SliceIndex(i, n) == IF i < 0 THEN Max(n + i, 0) ELSE Min(i, n)

\* s[start:stop].
PySlice(s, start, stop) ==
    LET lo == SliceIndex(start, Len(s))
        hi == SliceIndex(stop, Len(s))
    IN  IF lo < hi THEN SubSeq(s, lo + 1, hi) ELSE << >>

\* arguments.get(key, default).
ArgGet(arguments, key, default) ==
    IF key \in DOMAIN arguments THEN arguments[key] ELSE default

DEFAULT_LIMIT == 100
DEFAULT_OFFSET == 0

Paginate_from_zero(all_stations, offset, limit) == PySlice(all_stations, offset, limit)

\* Line 269: all_stations[offset:offset + limit].
Paginate(all_stations, offset, limit) == PySlice(all_stations, offset, offset + limit)

\* Lines 266-276.
list_all_stations(cache, arguments) ==
    LET limit == ArgGet(arguments, "limit", DEFAULT_LIMIT)
        offset == ArgGet(arguments, "offset", DEFAULT_OFFSET)
        all_stations == get_all_stations(cache)
        paginated == Paginate(all_stations, offset, limit)
    IN  [total |-> Len(all_stations), offset |-> offset, limit |-> limit,
         count |-> Len(paginated), stations |-> paginated]

(***************************************************************************)
(* weather.py: the observation decoder.                                    *)
(*                                                                         *)
(* A JSON number is Num(n), n in tenths (Num(105) is 10.5); a JSON array   *)
(* is List(<<...>>); JSON null is None; a str that may be None is Str(s).  *)
(***************************************************************************)
Num(n) == [t |-> "num", v |-> n]
Str(s) == [t |-> "str", v |-> s]
List(items) == [t |-> "list", v |-> items]

\* The sixteen compass points, in the order of their codes 1..16.
WIND_DIRECTIONS ==
    <<"NNE", "NE", "ENE", "E", "ESE", "SE", "SSE", "S",
      "SSW", "SW", "WSW", "W", "WNW", "NW", "NNW", "N">>

\* The localized table, its labels written in Latin letters.
WIND_DIRECTIONS_JA ==
    <<"hokuhokutou", "hokutou", "touhokutou", "higashi",
      "tounantou", "nantou", "nannantou", "minami",
      "nannansei", "nansei", "seinansei", "nishi",
      "seihokusei", "hokusei", "hokuhokusei", "kita">>

TableGet_zero_based(table, code) ==
    IF code \in 0..(Len(table) - 1) THEN Str(table[code + 1]) ELSE None

\* table.get(code) for a table with the keys 1..16.
TableGet(table, code) == IF code \in 1..Len(table) THEN Str(table[code]) ELSE None

parse_observation_value_falsy(value) ==
    IF value = None THEN None
    ELSE IF Len(value.v) < 2 THEN None
    ELSE IF Len(value.v) > 2 THEN Raised("ValueError")
    ELSE IF value.v[1] = None \/ value.v[1] = Num(0) \/ value.v[2] = None THEN None
    ELSE value.v[1]

\* parse_observation_value; unpacking a list of more than two items raises.
parse_observation_value(value) ==
    IF value = None THEN None
    ELSE IF Len(value.v) < 2 THEN None
    ELSE IF Len(value.v) > 2 THEN Raised("ValueError")
    ELSE IF value.v[1] = None \/ value.v[2] = None THEN None
    ELSE value.v[1]

EmptyDict == [k \in {} |-> None]

\* A conversion that rounds to the nearest whole number instead.
PyInt_rounding(x) == IF x >= 0 THEN (x + 5) \div 10 ELSE -((5 - x) \div 10)

\* int(x) of a number in tenths: the whole part, truncated toward zero.
PyInt(x) == Div(x, 10)

SimpleChannel_always(data, raw_key, key, field, unit) ==
    key :> ((field :> (IF raw_key \in DOMAIN data
                       THEN parse_observation_value(data[raw_key]) ELSE None))
            @@ ("unit" :> Str(unit)))

\* Lines 92-117 and 155-159: a channel that is one value with a unit.
SimpleChannel(data, raw_key, key, field, unit) ==
    IF raw_key \in DOMAIN data
    THEN key :> ((field :> parse_observation_value(data[raw_key])) @@ ("unit" :> Str(unit)))
    ELSE EmptyDict

\* data.get("windDirection", [None, None]).
WindDirectionEntry(data) ==
    IF "windDirection" \in DOMAIN data THEN data["windDirection"]
    ELSE List(<<None, None>>)

\* Lines 120-136.
WindChannel(data) ==
    IF "wind" \in DOMAIN data
    THEN LET wind_speed == parse_observation_value(data["wind"])
             parsed == parse_observation_value(WindDirectionEntry(data))
             wind_dir_code == IF parsed = None \/ IsRaised(parsed) THEN parsed
                              ELSE Num(10 * PyInt(parsed.v))
             wind_dir == IF parsed = None \/ IsRaised(parsed) THEN None
                         ELSE TableGet(WIND_DIRECTIONS, PyInt(parsed.v))
             wind_dir_ja == IF parsed = None \/ IsRaised(parsed) THEN None
                            ELSE TableGet(WIND_DIRECTIONS_JA, PyInt(parsed.v))
         IN  "wind" :> [speed |-> wind_speed, speed_unit |-> Str("m/s"),
                        direction |-> wind_dir, direction_ja |-> wind_dir_ja,
                        direction_code |-> wind_dir_code]
    ELSE EmptyDict

\* One field of a composite channel: set only if its raw key is present.
CompositeField(data, raw_key, field) ==
    IF raw_key \in DOMAIN data
    THEN field :> parse_observation_value(data[raw_key])
    ELSE EmptyDict

\* The sub-object set even when it has no field.
CompositeChannel_always(key, fields, unit) == key :> (fields @@ ("unit" :> Str(unit)))

\* Lines 148-152 and 173-177: the sub-object is set only if it has a field.
CompositeChannel(key, fields, unit) ==
    IF DOMAIN fields # {} THEN key :> (fields @@ ("unit" :> Str(unit))) ELSE EmptyDict

\* Lines 139-152.
PrecipitationChannel(data) ==
    CompositeChannel("precipitation",
        CompositeField(data, "precipitation10m", "10min")
        @@ CompositeField(data, "precipitation1h", "1h")
        @@ CompositeField(data, "precipitation3h", "3h")
        @@ CompositeField(data, "precipitation24h", "24h"),
        "mm")

\* Lines 162-177.
SnowChannel(data) ==
    CompositeChannel("snow",
        CompositeField(data, "snow", "depth")
        @@ CompositeField(data, "snow1h", "1h")
        @@ CompositeField(data, "snow6h", "6h")
        @@ CompositeField(data, "snow12h", "12h")
        @@ CompositeField(data, "snow24h", "24h"),
        "cm")

\* The raw keys the decoder reads.
KnownRawKeys ==
    {"temp", "humidity", "pressure", "normalPressure", "wind", "windDirection",
     "precipitation10m", "precipitation1h", "precipitation3h", "precipitation24h",
     "sun1h", "snow", "snow1h", "snow6h", "snow12h", "snow24h"}

\* The raw keys whose entry the decoder parses for this blob: windDirection is
\* read only inside the wind branch.
ParsedKeys(data) ==
    {k \in KnownRawKeys \cap DOMAIN data : k = "windDirection" => "wind" \in DOMAIN data}

\* Lines 89-179: the decoded record of one station; an entry that cannot be
\* unpacked raises out of the decoder.
DecodeStation(code, data) ==
    IF \E k \in ParsedKeys(data) : IsRaised(parse_observation_value(data[k]))
    THEN Raised("ValueError")
    ELSE ("code" :> Str(code))
         @@ SimpleChannel(data, "temp", "temperature", "value", "degC")
         @@ SimpleChannel(data, "humidity", "humidity", "value", "%")
         @@ SimpleChannel(data, "pressure", "pressure", "value", "hPa")
         @@ SimpleChannel(data, "normalPressure", "sea_level_pressure", "value", "hPa")
         @@ WindChannel(data)
         @@ PrecipitationChannel(data)
         @@ SimpleChannel(data, "sun1h", "sunshine", "1h", "hours")
         @@ SnowChannel(data)

(***************************************************************************)
(* weather.py: times.  A datetime in JST is a record of a day number and   *)
(* the time of day.                                                        *)
(***************************************************************************)
DateTime(day, hour, minute, second, microsecond) ==
    [day |-> day, hour |-> hour, minute |-> minute, second |-> second,
     microsecond |-> microsecond]

\* The whole seconds of a datetime, counted from the start of day 0.
ToSeconds(dt) == ((dt.day * 24 + dt.hour) * 60 + dt.minute) * 60 + dt.second

\* dt - timedelta(minutes=m): the date and the hour borrow as needed.
MinusMinutes(dt, m) ==
    LET total == ToSeconds(dt) - 60 * m
    IN  DateTime(total \div 86400, (total % 86400) \div 3600,
                 (total % 3600) \div 60, total % 60, dt.microsecond)

PUBLICATION_LAG_MINUTES == 40
DOCUMENTED_LAG_MINUTES == 30

\* Line 32: data_time.replace(minute=(minute // 10) * 10, second=0, microsecond=0).
FloorToTenMinutes(dt) ==
    [dt EXCEPT !.minute = (dt.minute \div 10) * 10, !.second = 0, !.microsecond = 0]

get_latest_data_time_documented(now) ==
    FloorToTenMinutes(MinusMinutes(now, DOCUMENTED_LAG_MINUTES))

\* get_latest_data_time, given what datetime.now(JST) returns.
get_latest_data_time(now) ==
    FloorToTenMinutes(MinusMinutes(now, PUBLICATION_LAG_MINUTES))

\* format_time_for_api: strftime('%Y%m%d%H%M00') prints the date, the hour and
\* the minute, and two zeros in place of the seconds.
format_time_for_api(dt) == <<dt.day, dt.hour, dt.minute, 0>>

\* datetime.isoformat(): every field is printed.
IsoFormat(dt) == <<dt.day, dt.hour, dt.minute, dt.second, dt.microsecond>>

\* strftime('%Y-%m-%d %H:%M JST').
FormatJst(dt) == <<dt.day, dt.hour, dt.minute>>

(***************************************************************************)
(* weather.py: fetch_amedas_data.  The answer of the upstream GET is an    *)
(* input: Json(raw_data), or Raised when the transport fails, the status   *)
(* is not 2xx or the body is not JSON.                                     *)
(***************************************************************************)
Json(raw_data) == [t |-> "json", v |-> raw_data]

\* Python's truth of an Optional[str]: None and "" are false.
Truthy(station_code) == station_code # None /\ station_code.v # ""

\* raw_data.get(station_code).
RawGet(raw_data, code) == IF code \in DOMAIN raw_data THEN raw_data[code] ELSE None

\* Line 83.
StationsToProcess(station_code, raw_data) ==
    IF Truthy(station_code)
    THEN station_code.v :> RawGet(raw_data, station_code.v)
    ELSE raw_data

\* Lines 65-68: the time queried, and the time string of the URL.
QueriedTime(now, data_time) ==
    IF data_time = None THEN get_latest_data_time(now) ELSE data_time

\* fetch_amedas_data without raise_for_status and with a body that is not JSON
\* read as {}: a failed GET yields a snapshot of no stations.
fetch_amedas_data_swallowing(now, station_code, data_time, response) ==
    LET queried == QueriedTime(now, data_time)
        raw_data == IF IsRaised(response) THEN EmptyDict ELSE response.v
        todo == StationsToProcess(station_code, raw_data)
        present == {code \in DOMAIN todo : todo[code] # None}
    IN  IF \E code \in present : IsRaised(DecodeStation(code, todo[code]))
        THEN Raised("ValueError")
        ELSE [observation_time |-> IsoFormat(queried),
              observation_time_jst |-> FormatJst(queried),
              stations |-> [code \in present |-> DecodeStation(code, todo[code])]]

\* Lines 65-181.
fetch_amedas_data(now, station_code, data_time, response) ==
    LET queried == QueriedTime(now, data_time)
    IN  IF IsRaised(response) THEN response
        ELSE LET todo == StationsToProcess(station_code, response.v)
                 present == {code \in DOMAIN todo : todo[code] # None}
             IN  IF \E code \in present : IsRaised(DecodeStation(code, todo[code]))
                 THEN Raised("ValueError")
                 ELSE [observation_time |-> IsoFormat(queried),
                       observation_time_jst |-> FormatJst(queried),
                       stations |-> [code \in present |-> DecodeStation(code, todo[code])]]

(***************************************************************************)
(* The time-series assembler, fetch_time_series_data.  weather.py as given *)
(* ends before it; it is modelled from section 4.3 and section 5 of the    *)
(* specification: the timestamps run down from the latest data time, one   *)
(* fetch per timestamp, the fetches complete in any order, a failed fetch  *)
(* is left out, and the series is ordered by timestamp.                    *)
(***************************************************************************)
\* ceil(a / b) for b > 0.
Ceil(a, b) == IF a <= 0 THEN 0 ELSE (a + b - 1) \div b

\* The number of points asked for.
NumPoints(hours, interval_minutes) == Ceil(hours * 60, interval_minutes)

\* anchor, anchor - interval, anchor - 2 * interval, ...
SeriesTimestamps(now, hours, interval_minutes) ==
    [k \in 1..NumPoints(hours, interval_minutes) |->
        MinusMinutes(get_latest_data_time(now), (k - 1) * interval_minutes)]

\* The seconds of a time printed by isoformat.
IsoSeconds(iso) == ((iso[1] * 24 + iso[2]) * 60 + iso[3]) * 60 + iso[4]

\* The place of a point among points already ordered latest first.
RECURSIVE InsertByTime(_, _)
InsertByTime(sorted, point) ==
    IF sorted = << >> THEN <<point>>
    ELSE IF IsoSeconds(Head(sorted).observation_time) >= IsoSeconds(point.observation_time)
         THEN <<Head(sorted)>> \o InsertByTime(Tail(sorted), point)
         ELSE <<point>> \o sorted

\* The points of the fetches that did not fail, latest first, from the fetch
\* results in the order in which they arrived.
RECURSIVE AssembleSeries(_)
AssembleSeries(arrived) ==
    IF arrived = << >> THEN << >>
    ELSE LET last == arrived[Len(arrived)]
             before == AssembleSeries(SubSeq(arrived, 1, Len(arrived) - 1))
         IN  IF IsRaised(last.result) THEN before
             ELSE InsertByTime(before, last.result)

\* The result of fetch_time_series_data.
TimeSeriesResult(station_code, interval_minutes, arrived) ==
    LET time_series == AssembleSeries(arrived)
    IN  [station_code |-> station_code, interval_minutes |-> interval_minutes,
         data_points |-> Len(time_series), time_series |-> time_series]

(***************************************************************************)
(* server.py, call_tool: get_weather_time_series.                          *)
(***************************************************************************)
DEFAULT_HOURS == 24
DEFAULT_INTERVAL_MINUTES == 60

TimeSeriesRequest_wrong_key(arguments) ==
    [station_code |-> arguments["station_code"],
     hours |-> ArgGet(arguments, "hours", DEFAULT_HOURS),
     interval_minutes |-> ArgGet(arguments, "interval", DEFAULT_INTERVAL_MINUTES)]

\* Lines 378-386: what the handler passes to fetch_time_series_data.
TimeSeriesRequest(arguments) ==
    [station_code |-> arguments["station_code"],
     hours |-> ArgGet(arguments, "hours", DEFAULT_HOURS),
     interval_minutes |-> ArgGet(arguments, "interval_minutes", DEFAULT_INTERVAL_MINUTES)]

\* Lines 388-391: the station's record is added if the directory has one.
WithStationInfo(cache, station_code, result) ==
    LET station_info == get_station(cache, station_code)
    IN  IF station_info # None THEN result @@ ("station_info" :> station_info)
        ELSE result

(***************************************************************************)
(* weather.py: fetch_forecast and the prefecture table.                    *)
(***************************************************************************)
\* AREA_CODES, in the order of the source: the key and the area code of each
\* prefecture.
AreaCodePairs ==
    <<<<"hokkaido_sapporo", "016000">>, <<"aomori", "020000">>,
      <<"iwate", "030000">>, <<"miyagi", "040000">>, <<"akita", "050000">>,
      <<"yamagata", "060000">>, <<"fukushima", "070000">>,
      <<"ibaraki", "080000">>, <<"tochigi", "090000">>, <<"gunma", "100000">>,
      <<"saitama", "110000">>, <<"chiba", "120000">>, <<"tokyo", "130000">>,
      <<"kanagawa", "140000">>, <<"niigata", "150000">>,
      <<"toyama", "160000">>, <<"ishikawa", "170000">>, <<"fukui", "180000">>,
      <<"yamanashi", "190000">>, <<"nagano", "200000">>, <<"gifu", "210000">>,
      <<"shizuoka", "220000">>, <<"aichi", "230000">>, <<"mie", "240000">>,
      <<"shiga", "250000">>, <<"kyoto", "260000">>, <<"osaka", "270000">>,
      <<"hyogo", "280000">>, <<"nara", "290000">>, <<"wakayama", "300000">>,
      <<"tottori", "310000">>, <<"shimane", "320000">>,
      <<"okayama", "330000">>, <<"hiroshima", "340000">>,
      <<"yamaguchi", "350000">>, <<"tokushima", "360000">>,
      <<"kagawa", "370000">>, <<"ehime", "380000">>, <<"kochi", "390000">>,
      <<"fukuoka", "400000">>, <<"saga", "410000">>, <<"nagasaki", "420000">>,
      <<"kumamoto", "430000">>, <<"oita", "440000">>, <<"miyazaki", "450000">>,
      <<"kagoshima", "460000">>, <<"okinawa", "470000">>>>

AREA_CODES ==
    [i \in 1..Len(AreaCodePairs) |->
        [key |-> AreaCodePairs[i][1], value |-> Str(AreaCodePairs[i][2])]]

\* list(d.keys()).
KeyList(d) == [i \in 1..Len(d) |-> d[i].key]

\* One call of a fetch function: the function, what it was asked for, and the
\* URL of its GET.
AmedasFetch(station_code, data_time) ==
    [fn |-> "fetch_amedas_data", station_code |-> station_code,
     url |-> format_time_for_api(data_time)]
ForecastFetch(area_code) == [fn |-> "fetch_forecast", url |-> area_code]

\* fetch_forecast: the body of the answer, as it is.
fetch_forecast(area_code, response) ==
    IF IsRaised(response) THEN response ELSE response.v

(***************************************************************************)
(* server.py, call_tool: the single-point tools.  A branch yields the text *)
(* it produced, or the exception it raised, and the fetches it made.       *)
(***************************************************************************)
\* json.dumps(payload), and a text that is not JSON.
Dumps(payload) == [t |-> "dumps", payload |-> payload]
Text(parts) == [t |-> "text", parts |-> parts]

Outcome(result, fetches) == [result |-> result, fetches |-> fetches]

\* The lookup by indexing: an unknown code raises KeyError.
tool_get_station_raising(cache, arguments) ==
    IF "code" \notin DOMAIN arguments THEN Outcome(Raised("KeyError"), << >>)
    ELSE LET station == get_station_indexing(cache, arguments["code"])
         IN  Outcome(IF IsRaised(station) THEN station ELSE Dumps(station), << >>)

\* Lines 228-234.
tool_get_station(cache, arguments) ==
    IF "code" \notin DOMAIN arguments THEN Outcome(Raised("KeyError"), << >>)
    ELSE LET code == arguments["code"]
             station == get_station(cache, code)
         IN  IF station # None THEN Outcome(Dumps(station), << >>)
             ELSE Outcome(Text(<<"Station with code '", code, "' not found.">>), << >>)

\* Lines 283-290: the result once the snapshot is fetched.
CurrentWeatherResult(cache, station_code, weather_data) ==
    IF IsRaised(weather_data) THEN weather_data
    ELSE IF /\ Truthy(station_code)
            /\ get_station(cache, station_code.v) # None
            /\ station_code.v \in DOMAIN weather_data.stations
         THEN Dumps([observation_time |-> weather_data.observation_time,
                     observation_time_jst |-> weather_data.observation_time_jst,
                     station_info |-> get_station(cache, station_code.v),
                     weather |-> weather_data.stations[station_code.v]])
         ELSE Dumps(weather_data)

\* Lines 278-290.
tool_get_current_weather(cache, arguments, now, response) ==
    LET station_code == IF "station_code" \in DOMAIN arguments
                        THEN Str(arguments["station_code"]) ELSE None
    IN  Outcome(CurrentWeatherResult(cache, station_code,
                    fetch_amedas_data(now, station_code, None, response)),
                <<AmedasFetch(station_code, QueriedTime(now, None))>>)

NEARBY_RADIUS_KM == 100

\* The last station of the list, the farthest within the radius.
Nearest_last(nearby) == nearby[Len(nearby)]

\* Line 303: nearby[0].
Nearest(nearby) == nearby[1]

\* Lines 308-315: the result once the snapshot of the nearest station is
\* fetched.
LocationResult(nearest, weather_data) ==
    IF IsRaised(weather_data) THEN weather_data
    ELSE Dumps([observation_time |-> weather_data.observation_time,
                observation_time_jst |-> weather_data.observation_time_jst,
                station |-> nearest,
                weather |-> IF nearest.code \in DOMAIN weather_data.stations
                            THEN weather_data.stations[nearest.code]
                            ELSE EmptyDict])

\* Lines 299-315: the handler once the directory is searched.
LocationOutcome(nearby, now, response) ==
    IF nearby = << >>
    THEN Outcome(Dumps([error |->
             Str("No stations found within 100km of the specified location")]), << >>)
    ELSE Outcome(LocationResult(Nearest(nearby),
                     fetch_amedas_data(now, Str(Nearest(nearby).code), None, response)),
                 <<AmedasFetch(Str(Nearest(nearby).code), QueriedTime(now, None))>>)

\* Lines 292-315.
tool_get_weather_by_location(cache, arguments, now, response) ==
    IF ~({"lat", "lon"} \subseteq DOMAIN arguments) THEN Outcome(Raised("KeyError"), << >>)
    ELSE LocationOutcome(search_stations_by_location(cache, arguments["lat"],
                                                     arguments["lon"],
                                                     NEARBY_RADIUS_KM * Scale),
                         now, response)

\* The forecast fetched without looking the prefecture up.
ForecastAreaCode_unchecked(prefecture) == Str(prefecture)

\* Line 319: AREA_CODES.get(prefecture).
ForecastAreaCode(prefecture) == DictGet(AREA_CODES, prefecture)

\* Lines 317-331.
tool_get_forecast(arguments, response) ==
    IF "prefecture" \notin DOMAIN arguments THEN Outcome(Raised("KeyError"), << >>)
    ELSE LET prefecture == arguments["prefecture"]
             area_code == ForecastAreaCode(prefecture)
         IN  IF ~Truthy(area_code)
             THEN Outcome(Dumps([error |-> Str(<<"Unknown prefecture: ", prefecture>>),
                                 available |-> KeyList(AREA_CODES)]), << >>)
             ELSE LET forecast_data == fetch_forecast(area_code.v, response)
                      fetches == <<ForecastFetch(area_code.v)>>
                  IN  IF IsRaised(forecast_data) THEN Outcome(forecast_data, fetches)
                      ELSE Outcome(Dumps([prefecture |-> prefecture,
                                          area_code |-> area_code.v,
                                          forecast |-> forecast_data]), fetches)

(***************************************************************************)
(* server.py, call_tool: get_historical_weather.  A str is the sequence of *)
(* its characters.  The calendar of the model is the days of one month:    *)
(* the year and the month of a string are parsed and checked, and dropped. *)
(***************************************************************************)
DIGITS == <<"0", "1", "2", "3", "4", "5", "6", "7", "8", "9">>
IsDigit(c) == \E i \in 1..Len(DIGITS) : DIGITS[i] = c
DigitValue(c) == (CHOOSE i \in 1..Len(DIGITS) : DIGITS[i] = c) - 1

\* The number a string of digits writes.
RECURSIVE DigitsValue(_)
DigitsValue(digits) ==
    IF digits = << >> THEN 0
    ELSE 10 * DigitsValue(SubSeq(digits, 1, Len(digits) - 1))
         + DigitValue(digits[Len(digits)])

\* The fields of a format: the most digits a field takes, and its values.
\* %zh and %zm are the hours and minutes of a UTC offset.
FieldDigits(directive) == IF directive = "%Y" THEN 4 ELSE 2
FieldValues(directive) ==
    CASE directive = "%Y" -> 1..9999
      [] directive = "%m" -> 1..12
      [] directive = "%d" -> 1..31
      [] directive \in {"%H", "%zh"} -> 0..23
      [] directive \in {"%M", "%zm"} -> 0..59
      [] directive = "%S" -> 0..61
Directives == {"%Y", "%m", "%d", "%H", "%M", "%S", "%zh", "%zm"}

\* How many characters of s a field takes: the most digits that give one of
\* its values (strptime takes one digit for two; the year, and every field of
\* fromisoformat, has its full width), 0 if none do.
FieldWidth(s, directive, strict) ==
    LET widths == {w \in 1..FieldDigits(directive) :
                      /\ w <= Len(s)
                      /\ \A i \in 1..w : IsDigit(s[i])
                      /\ (strict \/ directive = "%Y") => w = FieldDigits(directive)
                      /\ DigitsValue(SubSeq(s, 1, w)) \in FieldValues(directive)}
    IN  IF widths = {} THEN 0 ELSE CHOOSE w \in widths : \A v \in widths : v <= w

\* The spaces s begins with.
LeadingSpaces(s) ==
    CHOOSE n \in 0..Len(s) :
        /\ \A i \in 1..n : s[i] = " "
        /\ n < Len(s) => s[n + 1] # " "

\* The fields of s read by a format, ValueError if s is not of the format: a
\* field takes digits, a space of a strptime format takes one space or more,
\* %sign takes + or -, any other character of the format takes itself, and
\* nothing of s may be left over.
RECURSIVE ParseFormat(_, _, _)
ParseFormat(s, fmt, strict) ==
    IF fmt = << >> THEN (IF s = << >> THEN EmptyDict ELSE Raised("ValueError"))
    ELSE LET d == Head(fmt)
             taken == IF d \in Directives THEN FieldWidth(s, d, strict)
                      ELSE IF d = " " /\ ~strict THEN LeadingSpaces(s)
                      ELSE IF d = "%sign" THEN (IF s # << >> /\ Head(s) \in {"+", "-"}
                                                THEN 1 ELSE 0)
                      ELSE IF s # << >> /\ Head(s) = d THEN 1 ELSE 0
         IN  IF taken = 0 THEN Raised("ValueError")
             ELSE LET rest == ParseFormat(SubSeq(s, taken + 1, Len(s)), Tail(fmt), strict)
                  IN  IF IsRaised(rest) THEN rest
                      ELSE IF d \in Directives
                           THEN (d :> DigitsValue(SubSeq(s, 1, taken))) @@ rest
                      ELSE IF d = "%sign"
                           THEN (d :> (IF Head(s) = "+" THEN 1 ELSE -1)) @@ rest
                      ELSE rest

\* The first of the formats that reads s.
RECURSIVE ParseFirst(_, _, _)
ParseFirst(s, formats, strict) ==
    IF formats = << >> THEN Raised("ValueError")
    ELSE LET fields == ParseFormat(s, Head(formats), strict)
         IN  IF IsRaised(fields) THEN ParseFirst(s, Tail(formats), strict) ELSE fields

\* Line 349: "%Y-%m-%d %H:%M", "%Y-%m-%d %H:%M:%S", "%Y/%m/%d %H:%M".
StrptimeFormats ==
    << <<"%Y", "-", "%m", "-", "%d", " ", "%H", ":", "%M">>,
       <<"%Y", "-", "%m", "-", "%d", " ", "%H", ":", "%M", ":", "%S">>,
       <<"%Y", "/", "%m", "/", "%d", " ", "%H", ":", "%M">> >>

\* The forms of datetime.fromisoformat with a date, a T, hours and minutes,
\* with or without seconds and a UTC offset.
IsoDateTime == <<"%Y", "-", "%m", "-", "%d", "T", "%H", ":", "%M">>
IsoOffset == <<"%sign", "%zh", ":", "%zm">>
IsoFormats ==
    <<IsoDateTime, IsoDateTime \o <<":", "%S">>,
      IsoDateTime \o IsoOffset, IsoDateTime \o <<":", "%S">> \o IsoOffset>>

\* str.replace("Z", "+00:00").
RECURSIVE ReplaceZ(_)
ReplaceZ(s) ==
    IF s = << >> THEN << >>
    ELSE (IF Head(s) = "Z" THEN <<"+", "0", "0", ":", "0", "0">> ELSE <<Head(s)>>)
         \o ReplaceZ(Tail(s))

\* JST, and the offset of a parsed time in minutes: line 360 gives JST to a
\* time that has none.
JST_OFFSET_MINUTES == 9 * 60
TargetTime(fields) ==
    [time |-> DateTime(fields["%d"], fields["%H"], fields["%M"],
                       IF "%S" \in DOMAIN fields THEN fields["%S"] ELSE 0, 0),
     utcoffset |-> IF "%sign" \in DOMAIN fields
                   THEN fields["%sign"] * (60 * fields["%zh"] + fields["%zm"])
                   ELSE JST_OFFSET_MINUTES]

\* Lines 343-360: the target time of a datetime string, or the exception the
\* parsing raised.
\* Lines 343-360: the fields read make a time, or the exception.
CheckedTargetTime(fields) ==
    IF IsRaised(fields) THEN fields
    ELSE IF "%S" \in DOMAIN fields /\ fields["%S"] > 59 THEN Raised("ValueError")
    ELSE TargetTime(fields)
ParseTargetTime(datetime_str) ==
    CheckedTargetTime(IF \E i \in 1..Len(datetime_str) : datetime_str[i] = "T"
                      THEN ParseFirst(ReplaceZ(datetime_str), IsoFormats, TRUE)
                      ELSE ParseFirst(datetime_str, StrptimeFormats, FALSE))

\* fetch_historical_amedas_data, which weather.py as given does not have:
\* section 4.4 of the specification and the test of the function give the
\* snapshot of one station at the target time, with the station's channels
\* under data, or an error field if the snapshot has no such station; an
\* upstream failure is raised.
HistoricalResult(station_code, snapshot) ==
    IF IsRaised(snapshot) THEN snapshot
    ELSE IF station_code \in DOMAIN snapshot.stations
         THEN [observation_time |-> snapshot.observation_time,
               observation_time_jst |-> snapshot.observation_time_jst,
               station_code |-> station_code,
               data |-> snapshot.stations[station_code]]
         ELSE [observation_time |-> snapshot.observation_time,
               observation_time_jst |-> snapshot.observation_time_jst,
               station_code |-> station_code,
               error |-> Str("No data available for the station at this time")]
fetch_historical_amedas_data(now, station_code, target_time, response) ==
    HistoricalResult(station_code,
                     fetch_amedas_data(now, Str(station_code), target_time, response))

\* Lines 370-375: the result once the snapshot is fetched.
HistoricalReport(cache, station_code, historical_data) ==
    IF IsRaised(historical_data) THEN historical_data
    ELSE Dumps(WithStationInfo(cache, station_code, historical_data))

\* Lines 362-375: the handler once the datetime is parsed, or has failed to.
HistoricalOutcome(cache, station_code, target_time, now, response) ==
    IF IsRaised(target_time)
    THEN Outcome(Dumps(
             [error |-> Str(<<"Invalid datetime format: ", target_time.exc>>),
              hint |-> Str("Use ISO format (e.g., '2025-12-01T12:00:00') or 'YYYY-MM-DD HH:MM'")]),
             << >>)
    ELSE Outcome(HistoricalReport(cache, station_code,
                     fetch_historical_amedas_data(now, station_code, target_time.time,
                                                  response)),
                 <<AmedasFetch(Str(station_code), target_time.time)>>)

\* Lines 338-375.
tool_get_historical_weather(cache, arguments, now, response) ==
    IF ~({"station_code", "datetime"} \subseteq DOMAIN arguments)
    THEN Outcome(Raised("KeyError"), << >>)
    ELSE HistoricalOutcome(cache, arguments["station_code"],
                           ParseTargetTime(arguments["datetime"]), now, response)

\* Datetime strings: of each format of the handler, and of none.
DatetimeStrings ==
    {<<"2", "0", "2", "5", "-", "1", "2", "-", "0", "1", "T", "1", "2", ":", "0", "0", ":", "0", "0">>,
     <<"2", "0", "2", "5", "-", "1", "2", "-", "0", "1", " ", "1", "2", ":", "0", "0">>,
     <<"2", "0", "2", "5", "-", "1", "2", "-", "0", "1", " ", "1", "2", ":", "0", "0", ":", "3", "0">>,
     <<"2", "0", "2", "5", "/", "1", "2", "/", "0", "1", " ", "1", "2", ":", "0", "0">>,
     <<"2", "0", "2", "5", "-", "1", "2", "-", "0", "1", "T", "1", "2", ":", "0", "0", ":", "0", "0", "Z">>,
     <<"y", "e", "s", "t", "e", "r", "d", "a", "y">>,
     <<"T", "o", "m", "o", "r", "r", "o", "w">>,
     <<"2", "0", "2", "5", "-", "1", "2", "-", "0", "1">>,
     <<"2", "0", "2", "5", "-", "1", "2", "-", "0", "1", " ", "2", "5", ":", "0", "0">>,
     <<"1", "2", "/", "0", "1", "/", "2", "0", "2", "5", " ", "1", "2", ":", "0", "0">>,
     <<>>,
     <<"2", "0", "2", "5", "-", "1", "2", "-", "0", "2", "T", "0", "9", ":", "3", "4", ":", "5", "6">>,
     <<"2", "0", "2", "5", "-", "1", "2", "-", "1", " ", "9", ":", "5">>,
     <<"2", "0", "2", "5", "-", "1", "2", "-", "0", "1", "T", "1", "2", ":", "0", "0">>,
     <<"2", "0", "2", "5", "-", "1", "2", "-", "0", "1", " ", " ", "1", "2", ":", "0", "0">>,
     <<"2", "0", "2", "5", "-", "1", "2", "-", "0", "1", "T", "1", ":", "0", "0">>,
     <<"2", "0", "2", "5", "-", "1", "2", "-", "0", "1", "T", "1", "2", ":", "0", "0", ":", "0", "0", "-", "0", "5", ":", "0", "0">>}

\* The handler without its except clause: the exception leaves call_tool.
Envelope_missing(name, outcome) == outcome

\* Lines 398-404: an exception raised in a branch becomes an error result.
Envelope(name, outcome) ==
    IF IsRaised(outcome.result)
    THEN Outcome(Dumps([error |-> Str(outcome.result.exc), tool |-> name]), outcome.fetches)
    ELSE outcome

(***************************************************************************)
(* The inputs of the station directory's operations.                       *)
(***************************************************************************)
MaxQueryLen == 2
MaxLimit == 6
MaxOffset == 6

UNKNOWN_CODE == "99999"
Codes == Keys(STATIONS_FILE) \cup {UNKNOWN_CODE}

QueryChars == {"T", "t", "o", "O", "k", "a", "tou", "YO", "x"}
Queries == UNION {[1..n -> QueryChars] : n \in 0..MaxQueryLen}

\* Each station's own coordinates, the point midway between two stations, and
\* a point far from all of them.
QueryPoints ==
    {<<Values(STATIONS_FILE)[i].location.lat, Values(STATIONS_FILE)[i].location.lon>> :
        i \in 1..Len(STATIONS_FILE)} \cup {<<357, 1399>>, <<0, 0>>}

\* Radii, with Scale units per kilometre: negative, zero, two that are the exact
\* distance of a station from a query point, and the defaults 50 km and 100 km.
Radii == {-1 * Scale, 0, 76452, 165646, 50 * Scale, 100 * Scale, 900 * Scale}

StationTypes == {"A", "B", "C", "D", "E", "F", "Z"}

EmptyArgs == [k \in {} |-> 0]

PaginationArgs ==
    {(IF hasLimit THEN "limit" :> l ELSE EmptyArgs) @@
     (IF hasOffset THEN "offset" :> o ELSE EmptyArgs) :
        hasLimit \in BOOLEAN, hasOffset \in BOOLEAN,
        l \in -1..MaxLimit, o \in -1..MaxOffset}

(***************************************************************************)
(* The state machine: one action per operation.                            *)
(***************************************************************************)
NoCall == [op |-> "none"]

\* No time-series call is running.
NoFetches == [running |-> FALSE]

Init ==
    /\ stations_cache = None
    /\ call = NoCall
    /\ ret = None
    /\ inflight = NoFetches

\* No call is in progress: the caller may make one.
Idle == call = NoCall

\* The caller has taken the result of its call.
Return ==
    /\ ~Idle
    /\ ~inflight.running
    /\ call' = NoCall
    /\ ret' = None
    /\ inflight' = NoFetches
    /\ UNCHANGED stations_cache

GetStation ==
    /\ Idle
    /\ \E code \in Codes :
        /\ stations_cache' = load_stations(stations_cache)
        /\ call' = [op |-> "get_station", code |-> code]
        /\ ret' = get_station(stations_cache, code)
        /\ UNCHANGED inflight

SearchStationsByName ==
    /\ Idle
    /\ \E name \in Queries :
        /\ stations_cache' = load_stations(stations_cache)
        /\ call' = [op |-> "search_stations_by_name", name |-> name]
        /\ ret' = search_stations_by_name(stations_cache, name)
        /\ UNCHANGED inflight

SearchStationsByLocation ==
    /\ Idle
    /\ \E p \in QueryPoints, radius_km \in Radii :
        /\ stations_cache' = stations_after_search(stations_cache, p[1], p[2], radius_km)
        /\ call' = [op |-> "search_stations_by_location",
                    lat |-> p[1], lon |-> p[2], radius_km |-> radius_km]
        /\ ret' = search_stations_by_location(stations_cache, p[1], p[2], radius_km)
        /\ UNCHANGED inflight

GetStationsByType ==
    /\ Idle
    /\ \E station_type \in StationTypes :
        /\ stations_cache' = load_stations(stations_cache)
        /\ call' = [op |-> "get_stations_by_type", station_type |-> station_type]
        /\ ret' = get_stations_by_type(stations_cache, station_type)
        /\ UNCHANGED inflight

GetAllStations ==
    /\ Idle
    /\ stations_cache' = load_stations(stations_cache)
    /\ call' = [op |-> "get_all_stations"]
    /\ ret' = get_all_stations(stations_cache)
    /\ UNCHANGED inflight

ListAllStations ==
    /\ Idle
    /\ \E arguments \in PaginationArgs :
        /\ stations_cache' = load_stations(stations_cache)
        /\ call' = [op |-> "list_all_stations", arguments |-> arguments]
        /\ ret' = list_all_stations(stations_cache, arguments)
        /\ UNCHANGED inflight

NextStations ==
    \/ GetStation
    \/ SearchStationsByName
    \/ SearchStationsByLocation
    \/ GetStationsByType
    \/ GetAllStations
    \/ ListAllStations
    \/ Return

SpecStations == Init /\ [][NextStations]_vars

(***************************************************************************)
(* The clock.                                                              *)
(***************************************************************************)
MaxDay == 2

Clock ==
    {DateTime(day, hour, minute, second, microsecond) :
        day \in 1..MaxDay, hour \in 0..23, minute \in 0..59,
        second \in {0, 59}, microsecond \in {0, 999999}}

GetLatestDataTime ==
    /\ Idle
    /\ \E now \in Clock :
        /\ call' = [op |-> "get_latest_data_time", now |-> now]
        /\ ret' = get_latest_data_time(now)
        /\ UNCHANGED <<stations_cache, inflight>>

NextTime ==
    \/ GetLatestDataTime
    \/ Return

SpecTime == Init /\ [][NextTime]_vars

(***************************************************************************)
(* The inputs of the decoder.                                              *)
(***************************************************************************)
MaxEntryLen == 3
MaxBlobKeys == 2
MaxDirectionCode == 17

\* A value or a quality flag of a raw entry.
RawItems == {None, Num(0), Num(10), Num(105), Num(-20)}

\* Raw entries for parse_observation_value: null, and arrays of up to
\* MaxEntryLen items.
RawEntries ==
    {None} \cup {List(items) : items \in UNION {[1..n -> RawItems] : n \in 0..MaxEntryLen}}

\* The entries of a channel in an upstream blob.
ChannelEntries ==
    {List(<<Num(105), Num(0)>>), List(<<Num(0), Num(0)>>), List(<<Num(105), None>>),
     List(<<None, Num(0)>>), None}

\* The entries of windDirection: every whole code from 0 to MaxDirectionCode,
\* the fractional codes 3.5, 16.5, 0.5 and -0.5, and entries without a value or
\* a flag.
DirectionEntries ==
    {List(<<Num(10 * c), Num(0)>>) : c \in 0..MaxDirectionCode}
    \cup {List(<<Num(35), Num(0)>>), List(<<Num(165), Num(0)>>), List(<<Num(5), Num(0)>>),
          List(<<Num(-5), Num(0)>>), List(<<Num(160), None>>), List(<<None, Num(0)>>)}

\* A key the upstream sends and the decoder does not know.
UNKNOWN_RAW_KEY == "visibility"
RawKeys == KnownRawKeys \cup {UNKNOWN_RAW_KEY}

EntriesOf(k) == IF k = "windDirection" THEN DirectionEntries ELSE ChannelEntries

\* Every blob with exactly the keys K.
RECURSIVE BlobsOver(_)
BlobsOver(K) ==
    IF K = {} THEN {EmptyDict}
    ELSE LET k == CHOOSE x \in K : TRUE
         IN  {(k :> e) @@ rest : e \in EntriesOf(k), rest \in BlobsOver(K \ {k})}

\* The key sets of the blobs: up to MaxBlobKeys of the raw keys.
BlobKeySets == {K \in SUBSET RawKeys : Cardinality(K) <= MaxBlobKeys}

TOKYO == "44132"
NowSample == DateTime(1, 12, 47, 30, 0)

\* A blob with an entry of three items, which cannot be unpacked.
MalformedBlob == "temp" :> List(<<Num(105), Num(0), Num(0)>>)
SampleBlob == ("temp" :> List(<<Num(105), Num(0)>>)) @@ ("snow" :> List(<<Num(0), Num(0)>>))

\* What the upstream may answer.
UpstreamFailures ==
    {Raised("ConnectError"), Raised("HTTPStatusError"), Raised("JSONDecodeError")}

\* The calls of fetch_amedas_data: one station's blob, every blob with the keys
\* K in turn; and the other station codes and data times against a few answers.
FetchInputs(K) ==
    {[now |-> NowSample, station_code |-> Str(TOKYO), data_time |-> None,
      response |-> Json(TOKYO :> blob)] : blob \in BlobsOver(K)}
    \cup
    {[now |-> NowSample, station_code |-> sc, data_time |-> dt, response |-> r] :
        sc \in {None, Str(""), Str(TOKYO), Str(UNKNOWN_CODE)},
        dt \in {None, DateTime(1, 9, 30, 0, 0), DateTime(1, 9, 30, 56, 0),
               DateTime(1, 9, 34, 56, 0)},
        r \in UpstreamFailures
              \cup {Json(EmptyDict), Json(TOKYO :> None), Json(TOKYO :> MalformedBlob),
                    Json((TOKYO :> SampleBlob) @@ ("46106" :> EmptyDict))}}

ParseObservationValue ==
    /\ Idle
    /\ \E value \in RawEntries :
        /\ call' = [op |-> "parse_observation_value", value |-> value]
        /\ ret' = parse_observation_value(value)
        /\ UNCHANGED <<stations_cache, inflight>>

FetchAmedasData ==
    /\ Idle
    /\ \E K \in BlobKeySets : \E in \in FetchInputs(K) :
        /\ call' = [op |-> "fetch_amedas_data", now |-> in.now,
                    station_code |-> in.station_code, data_time |-> in.data_time,
                    url |-> format_time_for_api(QueriedTime(in.now, in.data_time)),
                    response |-> in.response]
        /\ ret' = fetch_amedas_data(in.now, in.station_code, in.data_time, in.response)
        /\ UNCHANGED <<stations_cache, inflight>>

(***************************************************************************)
(* The time-series call: its fetches complete one by one, in any order.    *)
(***************************************************************************)
MaxHours == 3
MaxPoints == 3

SeriesClock == {DateTime(1, 12, 47, 30, 0), DateTime(1, 0, 25, 0, 0)}

TimeSeriesArgs ==
    {("station_code" :> code) @@ ("hours" :> hours)
     @@ (IF hasInterval THEN "interval_minutes" :> interval ELSE EmptyArgs) :
        code \in {TOKYO, UNKNOWN_CODE}, hours \in 0..MaxHours,
        hasInterval \in BOOLEAN, interval \in {10, 20, 30, 60}}

\* What the upstream may answer to one fetch of the series: a 404, a payload
\* that cannot be decoded, or data.
SeriesResponses ==
    {Raised("HTTPStatusError"), Json(TOKYO :> MalformedBlob), Json(TOKYO :> SampleBlob)}

\* The handler is called: the timestamps are fixed and every fetch is pending.
TimeSeriesStart ==
    /\ Idle
    /\ \E arguments \in TimeSeriesArgs, now \in SeriesClock :
        LET request == TimeSeriesRequest(arguments)
        IN  /\ NumPoints(request.hours, request.interval_minutes) <= MaxPoints
            /\ call' = [op |-> "get_weather_time_series", arguments |-> arguments,
                        now |-> now]
            /\ inflight' = [running |-> TRUE, request |-> request,
                            timestamps |-> SeriesTimestamps(now, request.hours,
                                                            request.interval_minutes),
                            arrived |-> << >>]
            /\ UNCHANGED <<stations_cache, ret>>

\* The indexes of the fetches that have not completed.
Pending ==
    {k \in 1..Len(inflight.timestamps) :
        \A i \in 1..Len(inflight.arrived) : inflight.arrived[i].index # k}

\* One pending fetch completes, with data or with a failure.
FetchCompletes ==
    /\ inflight.running
    /\ \E k \in Pending, response \in SeriesResponses :
        inflight' = [inflight EXCEPT !.arrived =
            Append(@, [index |-> k, response |-> response,
                       result |-> fetch_amedas_data(call.now,
                                                    Str(inflight.request.station_code),
                                                    inflight.timestamps[k], response)])]
    /\ UNCHANGED <<stations_cache, call, ret>>

\* Every fetch has completed: the series is assembled and the handler returns.
TimeSeriesFinish ==
    /\ inflight.running
    /\ Pending = {}
    /\ stations_cache' = load_stations(stations_cache)
    /\ ret' = WithStationInfo(stations_cache, inflight.request.station_code,
                              TimeSeriesResult(inflight.request.station_code,
                                               inflight.request.interval_minutes,
                                               inflight.arrived))
    /\ inflight' = [inflight EXCEPT !.running = FALSE]
    /\ UNCHANGED call

NextSeries ==
    \/ TimeSeriesStart
    \/ FetchCompletes
    \/ TimeSeriesFinish
    \/ Return

SpecSeries == Init /\ [][NextSeries]_vars

NextDecode ==
    \/ ParseObservationValue
    \/ FetchAmedasData
    \/ Return

SpecDecode == Init /\ [][NextDecode]_vars

(***************************************************************************)
(* The tool calls of the server: call_tool, one action per single-point    *)
(* tool.  What the upstream answers to the GET of the call is an input.    *)
(***************************************************************************)
UNKNOWN_PREFECTURE == "atlantis"

GetStationArgs == {EmptyArgs} \cup {"code" :> code : code \in Codes}

CurrentWeatherArgs ==
    {EmptyArgs} \cup {"station_code" :> code : code \in {"", TOKYO, "46106", UNKNOWN_CODE}}

LocationArgs ==
    {"lat" :> 357} \cup {("lat" :> p[1]) @@ ("lon" :> p[2]) : p \in QueryPoints}

ForecastArgs ==
    {EmptyArgs}
    \cup {"prefecture" :> k : k \in Keys(AREA_CODES) \cup {UNKNOWN_PREFECTURE, "Tokyo", ""}}

\* What the upstream may answer to the GET of a snapshot, and of a forecast.
SnapshotResponses ==
    UpstreamFailures
    \cup {Json(EmptyDict), Json(TOKYO :> MalformedBlob), Json(UNKNOWN_CODE :> SampleBlob),
          Json((TOKYO :> SampleBlob) @@ ("46106" :> EmptyDict) @@ ("45212" :> SampleBlob))}
ForecastResponses == UpstreamFailures \cup {Json(List(<<[publishingOffice |-> "JMA"]>>))}

CallGetStation ==
    /\ Idle
    /\ \E arguments \in GetStationArgs :
        /\ stations_cache' = IF "code" \in DOMAIN arguments
                              THEN load_stations(stations_cache) ELSE stations_cache
        /\ call' = [op |-> "call_tool", name |-> "get_station", arguments |-> arguments]
        /\ ret' = Envelope("get_station", tool_get_station(stations_cache, arguments))
        /\ UNCHANGED inflight

CallGetCurrentWeather ==
    /\ Idle
    /\ \E arguments \in CurrentWeatherArgs, response \in SnapshotResponses :
        LET outcome == tool_get_current_weather(stations_cache, arguments, NowSample, response)
        IN  /\ stations_cache' =
                   IF /\ "station_code" \in DOMAIN arguments
                      /\ arguments["station_code"] # ""
                      /\ ~IsRaised(outcome.result)
                   THEN load_stations(stations_cache) ELSE stations_cache
            /\ call' = [op |-> "call_tool", name |-> "get_current_weather",
                        arguments |-> arguments, now |-> NowSample, response |-> response]
            /\ ret' = Envelope("get_current_weather", outcome)
            /\ UNCHANGED inflight

CallGetWeatherByLocation ==
    /\ Idle
    /\ \E arguments \in LocationArgs, response \in SnapshotResponses :
        /\ stations_cache' = IF {"lat", "lon"} \subseteq DOMAIN arguments
                              THEN stations_after_search(stations_cache, arguments["lat"],
                                                         arguments["lon"],
                                                         NEARBY_RADIUS_KM * Scale)
                              ELSE stations_cache
        /\ call' = [op |-> "call_tool", name |-> "get_weather_by_location",
                    arguments |-> arguments, now |-> NowSample, response |-> response]
        /\ ret' = Envelope("get_weather_by_location",
                           tool_get_weather_by_location(stations_cache, arguments,
                                                        NowSample, response))
        /\ UNCHANGED inflight

CallGetForecast ==
    /\ Idle
    /\ \E arguments \in ForecastArgs, response \in ForecastResponses :
        /\ call' = [op |-> "call_tool", name |-> "get_forecast",
                    arguments |-> arguments, response |-> response]
        /\ ret' = Envelope("get_forecast", tool_get_forecast(arguments, response))
        /\ UNCHANGED <<stations_cache, inflight>>

HistoricalArgs ==
    {EmptyArgs}
    \cup {("station_code" :> code) @@ ("datetime" :> datetime_str) :
              code \in {TOKYO, UNKNOWN_CODE}, datetime_str \in DatetimeStrings}

CallGetHistoricalWeather ==
    /\ Idle
    /\ \E arguments \in HistoricalArgs, response \in SnapshotResponses :
        LET outcome == tool_get_historical_weather(stations_cache, arguments,
                                                   NowSample, response)
        IN  /\ stations_cache' = IF outcome.fetches # << >> /\ ~IsRaised(outcome.result)
                                  THEN load_stations(stations_cache) ELSE stations_cache
            /\ call' = [op |-> "call_tool", name |-> "get_historical_weather",
                        arguments |-> arguments, now |-> NowSample, response |-> response]
            /\ ret' = Envelope("get_historical_weather", outcome)
            /\ UNCHANGED inflight

NextServer ==
    \/ CallGetStation
    \/ CallGetCurrentWeather
    \/ CallGetWeatherByLocation
    \/ CallGetForecast
    \/ CallGetHistoricalWeather
    \/ Return

SpecServer == Init /\ [][NextServer]_vars

(***************************************************************************)
(* cli.py: the parser of _build_parser.  An argument vector is a sequence  *)
(* of strings; parse_args gives the handler and the namespace, raises      *)
(* ValueError through JsonArgumentParser.error, or prints the usage text   *)
(* and exits with 0 at -h or --help, as argparse does.                     *)
(***************************************************************************)
PyIntValue(n) == [t |-> "int", v |-> n]

\* add_argument: the flag, the attribute it sets, its type, whether it is
\* required, its default and its choices (none for any value).
Option(flag, dest, type, required, default, choices) ==
    [flag |-> flag, dest |-> dest, type |-> type, required |-> required,
     default |-> default, choices |-> choices]

\* add_parser and set_defaults: the subcommands, their options and handlers.
Subcommand(resource, command, handler, options) ==
    [resource |-> resource, command |-> command, handler |-> handler,
     options |-> options]

SUBCOMMANDS ==
    {Subcommand("station", "get", "_station_get",
         {Option("--code", "code", "str", TRUE, None, {})}),
     Subcommand("station", "search", "_station_search",
         {Option("--name", "name", "str", TRUE, None, {})}),
     Subcommand("station", "nearby", "_station_nearby",
         {Option("--lat", "lat", "float", TRUE, None, {}),
          Option("--lon", "lon", "float", TRUE, None, {}),
          Option("--radius-km", "radius_km", "float", FALSE, Num(500), {})}),
     Subcommand("station", "type", "_station_type",
         {Option("--station-type", "station_type", "str", TRUE, None,
                 {Str("A"), Str("B"), Str("C"), Str("D"), Str("E"), Str("F")})}),
     Subcommand("station", "list", "_station_list",
         {Option("--limit", "limit", "int", FALSE, PyIntValue(100), {}),
          Option("--offset", "offset", "int", FALSE, PyIntValue(0), {})}),
     Subcommand("weather", "current", "_weather_current",
         {Option("--station-code", "station_code", "str", FALSE, None, {})}),
     Subcommand("weather", "by-location", "_weather_by_location",
         {Option("--lat", "lat", "float", TRUE, None, {}),
          Option("--lon", "lon", "float", TRUE, None, {})}),
     Subcommand("forecast", "get", "_forecast_get",
         {Option("--prefecture", "prefecture", "str", TRUE, None, {})}),
     Subcommand("forecast", "list-prefectures", "_forecast_list_prefectures", {}),
     Subcommand("history", "get", "_history_get",
         {Option("--station-code", "station_code", "str", TRUE, None, {}),
          Option("--target-datetime", "target_datetime", "str", TRUE, None, {})}),
     Subcommand("history", "series", "_history_series",
         {Option("--station-code", "station_code", "str", TRUE, None, {}),
          Option("--hours", "hours", "int", FALSE, PyIntValue(24), {}),
          Option("--interval-minutes", "interval_minutes", "int", FALSE, PyIntValue(60),
                 {PyIntValue(10), PyIntValue(30), PyIntValue(60)})})}

HELP_FLAGS == {"-h", "--help"}

\* The strings of the argument vectors that argparse takes for options.
OptionLike ==
    HELP_FLAGS \cup {"--bogus"}
    \cup UNION {{o.flag : o \in sub.options} : sub \in SUBCOMMANDS}

\* int(string) and float(string), for the strings of the argument vectors:
\* the number written, ValueError for any other string.  A float is held in
\* tenths.
IntLiterals ==
    ("0" :> 0) @@ ("1" :> 1) @@ ("2" :> 2) @@ ("10" :> 10) @@ ("20" :> 20)
    @@ ("30" :> 30) @@ ("60" :> 60) @@ ("-5" :> -5)
FloatLiterals ==
    ("35.7" :> 357) @@ ("139.8" :> 1398) @@ ("139.9" :> 1399) @@ ("0" :> 0)
    @@ ("100" :> 1000)

\* type(string): the value of an option.
Convert(type, string) ==
    CASE type = "str" -> Str(string)
      [] type = "int" -> IF string \in DOMAIN IntLiterals
                         THEN PyIntValue(IntLiterals[string]) ELSE Raised("ValueError")
      [] type = "float" -> IF string \in DOMAIN FloatLiterals
                           THEN Num(FloatLiterals[string]) ELSE Raised("ValueError")

\* What parse_args comes to.
Parsed(handler, args) == [t |-> "parsed", handler |-> handler, args |-> args]
HelpExit == [t |-> "exit", code |-> PyIntValue(0), stdout |-> "usage"]

\* The options of a subcommand, read left to right: help exits where it
\* stands, a value that cannot be converted or is no choice is an error where
\* it stands, a string that is no option of the subcommand is an error at the
\* end, after the required options have been looked for.
RECURSIVE ParseOptions(_, _, _, _)
ParseOptions(tokens, sub, seen, unrecognized) ==
    IF tokens = << >>
    THEN IF \E o \in sub.options : o.required /\ o.dest \notin DOMAIN seen
         THEN Raised("ValueError")
         ELSE IF unrecognized THEN Raised("ValueError")
         ELSE Parsed(sub.handler,
                     [dest \in {o.dest : o \in sub.options} |->
                         IF dest \in DOMAIN seen THEN seen[dest]
                         ELSE (CHOOSE o \in sub.options : o.dest = dest).default])
    ELSE LET token == Head(tokens)
         IN  IF token \in HELP_FLAGS THEN HelpExit
             ELSE IF \E o \in sub.options : o.flag = token
             THEN LET o == CHOOSE x \in sub.options : x.flag = token
                  IN  IF Len(tokens) < 2 \/ tokens[2] \in OptionLike
                      THEN Raised("ValueError")
                      ELSE LET value == Convert(o.type, tokens[2])
                           IN  IF IsRaised(value) THEN value
                               ELSE IF o.choices # {} /\ value \notin o.choices
                               THEN Raised("ValueError")
                               ELSE ParseOptions(SubSeq(tokens, 3, Len(tokens)), sub,
                                                 (o.dest :> value) @@ seen, unrecognized)
             ELSE ParseOptions(Tail(tokens), sub, seen, TRUE)

\* parser.parse_args(argv): the resource, the command, and the options.
parse_args(argv) ==
    IF argv = << >> THEN Raised("ValueError")
    ELSE IF argv[1] \in HELP_FLAGS THEN HelpExit
    ELSE IF argv[1] \notin {sub.resource : sub \in SUBCOMMANDS} THEN Raised("ValueError")
    ELSE IF Len(argv) < 2 THEN Raised("ValueError")
    ELSE IF argv[2] \in HELP_FLAGS THEN HelpExit
    ELSE IF ~\E sub \in SUBCOMMANDS : sub.resource = argv[1] /\ sub.command = argv[2]
    THEN Raised("ValueError")
    ELSE ParseOptions(SubSeq(argv, 3, Len(argv)),
                      CHOOSE sub \in SUBCOMMANDS :
                          sub.resource = argv[1] /\ sub.command = argv[2],
                      EmptyArgs, FALSE)

(***************************************************************************)
(* The functions of the server that the handlers of cli.py call.  Each     *)
(* returns the structured result of the tool of the same name, a not-found *)
(* text as {error: message}; an exception of the fetch leaves it.          *)
(***************************************************************************)
AsPayload(outcome) ==
    Outcome(CASE IsRaised(outcome.result) -> outcome.result
              [] outcome.result.t = "dumps" -> outcome.result.payload
              [] outcome.result.t = "text" -> [error |-> Str(outcome.result.parts)],
            outcome.fetches)

\* The names and the datetimes of the argument vectors, character by character.
NameLiterals == ("to" :> <<"t", "o">>) @@ ("x" :> <<"x">>)
DatetimeLiterals ==
    ("2025-12-01T12:00:00" :>
        <<"2", "0", "2", "5", "-", "1", "2", "-", "0", "1", "T", "1", "2", ":", "0", "0", ":", "0", "0">>)
    @@ ("2025-12-01 12:00" :>
        <<"2", "0", "2", "5", "-", "1", "2", "-", "0", "1", " ", "1", "2", ":", "0", "0">>)
    @@ ("yesterday" :> <<"y", "e", "s", "t", "e", "r", "d", "a", "y">>)

server_get_station_info(cache, code) ==
    AsPayload(tool_get_station(cache, "code" :> code))

server_search_stations(cache, name) ==
    LET stations == search_stations_by_name(cache, NameLiterals[name])
    IN  Outcome([count |-> Len(stations), stations |-> stations], << >>)

server_search_nearby_stations(cache, lat, lon, radius_km) ==
    LET stations == search_stations_by_location(cache, lat, lon, (radius_km * Scale) \div 10)
    IN  Outcome([count |-> Len(stations), stations |-> stations], << >>)

server_get_stations_of_type(cache, station_type) ==
    LET stations == get_stations_by_type(cache, station_type)
    IN  Outcome([count |-> Len(stations), stations |-> stations], << >>)

server_list_stations(cache, limit, offset) ==
    Outcome(list_all_stations(cache, ("limit" :> limit) @@ ("offset" :> offset)), << >>)

server_get_current_weather(cache, station_code, now, response) ==
    AsPayload(tool_get_current_weather(cache,
                  IF station_code = None THEN EmptyArgs
                  ELSE "station_code" :> station_code.v, now, response))

server_get_weather_by_location(cache, lat, lon, now, response) ==
    AsPayload(tool_get_weather_by_location(cache, ("lat" :> lat) @@ ("lon" :> lon),
                                           now, response))

server_get_forecast(prefecture, response) ==
    AsPayload(tool_get_forecast("prefecture" :> prefecture, response))

server_list_prefectures == Outcome([prefectures |-> KeyList(AREA_CODES)], << >>)

server_get_historical_weather(cache, station_code, target_datetime, now, response) ==
    AsPayload(tool_get_historical_weather(cache,
                  ("station_code" :> station_code)
                  @@ ("datetime" :> DatetimeLiterals[target_datetime]), now, response))

\* The fetches of the series one after the other, the upstream answering each
\* of them alike.
server_get_weather_time_series(cache, station_code, hours, interval_minutes, now, response) ==
    LET timestamps == SeriesTimestamps(now, hours, interval_minutes)
        arrived == [k \in 1..Len(timestamps) |->
                       [index |-> k, response |-> response,
                        result |-> fetch_amedas_data(now, Str(station_code),
                                                     timestamps[k], response)]]
    IN  Outcome(WithStationInfo(cache, station_code,
                    TimeSeriesResult(station_code, interval_minutes, arrived)),
                [k \in 1..Len(timestamps) |-> AmedasFetch(Str(station_code), timestamps[k])])

(***************************************************************************)
(* cli.py: the handlers and main.                                          *)
(***************************************************************************)
\* Lines 152-205: asyncio.run(handler(args)).
RunHandler(handler, args, cache, now, response) ==
    CASE handler = "_station_get" -> server_get_station_info(cache, args["code"].v)
      [] handler = "_station_search" -> server_search_stations(cache, args["name"].v)
      [] handler = "_station_nearby" ->
             server_search_nearby_stations(cache, args["lat"].v, args["lon"].v,
                                           args["radius_km"].v)
      [] handler = "_station_type" ->
             server_get_stations_of_type(cache, args["station_type"].v)
      [] handler = "_station_list" ->
             server_list_stations(cache, args["limit"].v, args["offset"].v)
      [] handler = "_weather_current" ->
             server_get_current_weather(cache, args["station_code"], now, response)
      [] handler = "_weather_by_location" ->
             server_get_weather_by_location(cache, args["lat"].v, args["lon"].v,
                                            now, response)
      [] handler = "_forecast_get" -> server_get_forecast(args["prefecture"].v, response)
      [] handler = "_forecast_list_prefectures" -> server_list_prefectures
      [] handler = "_history_get" ->
             server_get_historical_weather(cache, args["station_code"].v,
                                           args["target_datetime"].v, now, response)
      [] handler = "_history_series" ->
             server_get_weather_time_series(cache, args["station_code"].v, args["hours"].v,
                                            args["interval_minutes"].v, now, response)

\* Lines 121-126.
cli_normalize_exit_code(code) ==
    IF code = None THEN 0
    ELSE IF code.t = "int" THEN code.v
    ELSE 2

\* What a run of the command line leaves: the exit code, what was printed to
\* stdout, the fetches made, and how parsing and the handler ended.
CliResult(exit_code, stdout, fetches, parsing, handler) ==
    [exit_code |-> exit_code, stdout |-> stdout, fetches |-> fetches,
     parsing |-> parsing, handler |-> handler]

\* Lines 142-149: the handler has run.
cli_report(outcome) ==
    IF IsRaised(outcome.result)
    THEN CliResult(2, <<Dumps([error |-> Str(outcome.result.exc)])>>, outcome.fetches,
                   "parsed", "raised")
    ELSE CliResult(0, <<Dumps(outcome.result)>>, outcome.fetches, "parsed", "returned")

\* Lines 139-149: parsing has not raised ValueError.
cli_run(parsed, now, response) ==
    IF parsed.t = "exit"
    THEN CliResult(cli_normalize_exit_code(parsed.code), <<Text(parsed.stdout)>>,
                   << >>, "exit", "not run")
    ELSE cli_report(RunHandler(parsed.handler, parsed.args, None, now, response))

\* The parser of argparse.ArgumentParser: an error prints the usage to stderr
\* and exits with 2.
cli_parsed_exiting(parsed, now, response) ==
    IF IsRaised(parsed) THEN CliResult(2, << >>, << >>, "error", "not run")
    ELSE cli_run(parsed, now, response)

\* Lines 133-149: parse_args has returned, or raised.
cli_parsed(parsed, now, response) ==
    IF IsRaised(parsed)
    THEN CliResult(2, <<Dumps([error |-> Str(parsed.exc)])>>, << >>, "error", "not run")
    ELSE cli_run(parsed, now, response)

\* Lines 129-149.  The process starts with no station directory loaded.
cli_main(argv, now, response) == cli_parsed(parse_args(argv), now, response)

(***************************************************************************)
(* entrypoint.py.                                                          *)
(***************************************************************************)
\* Lines 10-15.
entrypoint_normalize_exit_code(code) ==
    IF code = None THEN 0
    ELSE IF code.t = "int" THEN code.v
    ELSE 1

\* How server.main() may end: it returns, or it exits with a code.
SystemExit(code) == [t |-> "exit", code |-> code]
ServerEndings ==
    {[t |-> "returned"], SystemExit(None), SystemExit(PyIntValue(0)),
     SystemExit(PyIntValue(3)), SystemExit(Str("fatal"))}

\* Lines 18-23.
run_server(ending) ==
    IF ending.t = "returned" THEN 0 ELSE entrypoint_normalize_exit_code(ending.code)

\* The server runs if "serve" stands anywhere among the arguments.
IsServerMode_anywhere(args) == args = << >> \/ \E i \in 1..Len(args) : args[i] = "serve"

\* Line 30.
IsServerMode(args) == args = << >> \/ args[1] = "serve"

\* Lines 33-36: the command line has run.
RunCli(args, cli) ==
    [exit_code |-> cli.exit_code,
     runs |-> <<[program |-> "cli", argv |-> args, result |-> cli]>>]

\* Lines 26-36: the exit code, the programs run with their arguments, and what
\* the command line left.
entrypoint_main(args, ending, now, response) ==
    IF IsServerMode(args)
    THEN [exit_code |-> run_server(ending), runs |-> <<[program |-> "server"]>>]
    ELSE RunCli(args, cli_main(args, now, response))

(***************************************************************************)
(* The command line and the entry point: their inputs and their actions.   *)
(***************************************************************************)
CliArgvs ==
    {<< >>, <<"-h">>, <<"--help">>, <<"bogus">>, <<"--bogus">>, <<"station">>,
     <<"station", "-h">>, <<"station", "bogus">>, <<"station", "get">>,
     <<"station", "get", "--help">>, <<"station", "get", "--code">>,
     <<"station", "get", "--code", "-h">>, <<"station", "get", "--code", TOKYO>>,
     <<"station", "get", "--code", UNKNOWN_CODE>>,
     <<"station", "get", "--code", TOKYO, "-h">>,
     <<"station", "get", "--bogus", "--code", TOKYO>>,
     <<"station", "get", "--bogus", "-h">>,
     <<"station", "get", "--code", TOKYO, "--code", UNKNOWN_CODE>>,
     <<"station", "get", "--code", TOKYO, "extra">>,
     <<"station", "search", "--name", "to">>, <<"station", "search", "--name", "x">>,
     <<"station", "nearby", "--lat", "35.7", "--lon", "139.8">>,
     <<"station", "nearby", "--lat", "35.7", "--lon", "139.8", "--radius-km", "100">>,
     <<"station", "nearby", "--lat", "north", "--lon", "139.8">>,
     <<"station", "nearby", "--lat", "35.7">>,
     <<"station", "type", "--station-type", "A">>,
     <<"station", "type", "--station-type", "Z">>,
     <<"station", "list">>, <<"station", "list", "--limit", "2", "--offset", "1">>,
     <<"station", "list", "--limit", "1.5">>,
     <<"weather", "current">>, <<"weather", "current", "--station-code", TOKYO>>,
     <<"weather", "current", "--station-code", UNKNOWN_CODE>>,
     <<"weather", "by-location", "--lat", "35.7", "--lon", "139.8">>,
     <<"weather", "by-location", "--lat", "0", "--lon", "0">>,
     <<"weather", "by-location", "--lon", "139.8">>,
     <<"forecast", "get", "--prefecture", "tokyo">>,
     <<"forecast", "get", "--prefecture", UNKNOWN_PREFECTURE>>,
     <<"forecast", "list-prefectures">>, <<"forecast", "list-prefectures", "--help">>,
     <<"history", "get", "--station-code", TOKYO, "--target-datetime", "2025-12-01T12:00:00">>,
     <<"history", "get", "--station-code", TOKYO, "--target-datetime", "2025-12-01 12:00">>,
     <<"history", "get", "--station-code", TOKYO, "--target-datetime", "yesterday">>,
     <<"history", "get", "--station-code", TOKYO>>,
     <<"history", "series", "--station-code", TOKYO, "--hours", "1">>,
     <<"history", "series", "--station-code", TOKYO, "--hours", "-5">>,
     <<"history", "series", "--station-code", TOKYO, "--hours", "1",
       "--interval-minutes", "30">>,
     <<"history", "series", "--station-code", TOKYO, "--hours", "1",
       "--interval-minutes", "20">>,
     <<"history", "series", "--station-code", TOKYO, "--interval-minutes", "sixty">>,
     <<"history", "series", "--hours", "1">>,
     <<"station", "serve">>}

\* What the upstream may answer to the fetches of a handler; a run that makes
\* no fetch has no answer.
NoResponse == [t |-> "no response"]
HandlerResponses(parsed) ==
    IF IsRaised(parsed) \/ parsed.t = "exit" THEN {NoResponse}
    ELSE IF RunHandler(parsed.handler, parsed.args, None, NowSample,
                       Raised("ConnectError")).fetches = << >>
    THEN {NoResponse}
    ELSE CASE parsed.handler = "_forecast_get" -> ForecastResponses
           [] parsed.handler = "_history_series" -> SeriesResponses
           [] OTHER -> SnapshotResponses
CliResponses(argv) == HandlerResponses(parse_args(argv))

\* One run of the command line.
CliMain ==
    /\ Idle
    /\ \E argv \in CliArgvs : \E response \in CliResponses(argv) :
        /\ call' = [op |-> "cli.main", argv |-> argv, now |-> NowSample,
                    response |-> response]
        /\ ret' = cli_main(argv, NowSample, response)
        /\ UNCHANGED <<stations_cache, inflight>>

EntrypointArgvs ==
    {<< >>, <<"serve">>, <<"serve", "station", "get">>, <<"station", "serve">>,
     <<"station", "get", "--code", TOKYO, "serve">>, <<"--help">>, <<"Serve">>,
     <<"weather", "current", "--station-code", TOKYO>>,
     <<"forecast", "list-prefectures">>}

\* One start of the program.
EntrypointMain ==
    /\ Idle
    /\ \E args \in EntrypointArgvs, ending \in ServerEndings :
       \E response \in IF IsServerMode(args) THEN {NoResponse} ELSE CliResponses(args) :
        /\ call' = [op |-> "entrypoint.main", argv |-> args, ending |-> ending,
                    now |-> NowSample, response |-> response]
        /\ ret' = entrypoint_main(args, ending, NowSample, response)
        /\ UNCHANGED <<stations_cache, inflight>>

NextCli ==
    \/ CliMain
    \/ EntrypointMain
    \/ Return

SpecCli == Init /\ [][NextCli]_vars

(***************************************************************************)
(* The whole program.                                                      *)
(***************************************************************************)
Next ==
    \/ GetStation
    \/ SearchStationsByName
    \/ SearchStationsByLocation
    \/ GetStationsByType
    \/ GetAllStations
    \/ ListAllStations
    \/ GetLatestDataTime
    \/ ParseObservationValue
    \/ FetchAmedasData
    \/ TimeSeriesStart
    \/ FetchCompletes
    \/ TimeSeriesFinish
    \/ CallGetStation
    \/ CallGetCurrentWeather
    \/ CallGetWeatherByLocation
    \/ CallGetForecast
    \/ CallGetHistoricalWeather
    \/ CliMain
    \/ EntrypointMain
    \/ Return

Spec == Init /\ [][Next]_vars

(***************************************************************************)
(* The station directory: properties.                                      *)
(***************************************************************************)
Directory == Values(STATIONS_FILE)

\* The position of a station code in the dataset.
DirectoryIndex(code) == CHOOSE i \in 1..Len(Directory) : Directory[i].code = code

\* One hundredth of a kilometre, in the units of Haversine.
Hundredth == Scale \div 100

IsLocationCall == call.op = "search_stations_by_location"

DistanceTo(station) ==
    Haversine(call.lat, call.lon, station.location.lat, station.location.lon)

\* C1: search_stations_by_location returns exactly the stations whose haversine
\* distance from the query point is at most the radius, each once; every
\* distance_km is the distance rounded to two decimals, so at most the radius
\* plus half a hundredth; and a station queried at its own coordinates with a
\* radius of zero or more is returned with distance_km 0.
C1_ExactlyWithinRadius ==
    IsLocationCall =>
        /\ {ret[i].code : i \in 1..Len(ret)} =
               {st.code : st \in {x \in {Directory[i] : i \in 1..Len(Directory)} :
                                     DistanceTo(x) <= call.radius_km}}
        /\ \A i, j \in 1..Len(ret) : ret[i].code = ret[j].code => i = j
        /\ \A i \in 1..Len(ret) :
               /\ 2 * Abs(ret[i].distance_km * Hundredth
                          - DistanceTo(Directory[DirectoryIndex(ret[i].code)])) <= Hundredth
               /\ 2 * ret[i].distance_km * Hundredth <= 2 * call.radius_km + Hundredth
        /\ \A k \in 1..Len(Directory) :
               (/\ Directory[k].location = [lat |-> call.lat, lon |-> call.lon]
                /\ call.radius_km >= 0)
               => \E i \in 1..Len(ret) :
                      ret[i].code = Directory[k].code /\ ret[i].distance_km = 0

\* A query at a station's own coordinates with radius 0 returned that station,
\* at distance 0.
C1_Witness ==
    /\ IsLocationCall
    /\ call.radius_km = 0
    /\ Len(ret) = 1
    /\ ret[1].distance_km = 0
    /\ ret[1].location = [lat |-> call.lat, lon |-> call.lon]

\* C2: the list search_stations_by_location returns has non-decreasing
\* distance_km, and two stations of equal distance_km are in dataset order.
C2_SortedStable ==
    IsLocationCall =>
        \A i, j \in 1..Len(ret) :
            i < j =>
                /\ ret[i].distance_km <= ret[j].distance_km
                /\ ret[i].distance_km = ret[j].distance_km
                   => DirectoryIndex(ret[i].code) < DirectoryIndex(ret[j].code)

\* A result that holds a tie and two stations the sort moved out of dataset
\* order.
C2_Witness ==
    /\ IsLocationCall
    /\ \E i, j \in 1..Len(ret) : i < j /\ ret[i].distance_km = ret[j].distance_km
    /\ \E i, j \in 1..Len(ret) :
           i < j /\ DirectoryIndex(ret[i].code) > DirectoryIndex(ret[j].code)

\* C3: get_station never raises; for a code that is a key of the directory it
\* returns the record whose code field is that code, and for any other code it
\* returns None.
C3_GetStation ==
    call.op = "get_station" =>
        /\ ~IsRaised(ret)
        /\ call.code \in Keys(STATIONS_FILE)
           => ret # None /\ ret.code = call.code
        /\ call.code \notin Keys(STATIONS_FILE) => ret = None

\* get_station was called with a code that is not in the directory.
C3_Witness ==
    /\ call.op = "get_station"
    /\ call.code = UNKNOWN_CODE
    /\ ret = None

\* A window of s equals sub, character by character, ignoring case.
ContainsIgnoringCase(sub, s) ==
    \E i \in 0..(Len(s) - Len(sub)) :
        \A j \in 1..Len(sub) : LowerChar(s[i + j]) = LowerChar(sub[j])

NameSelected(station) ==
    \/ Contains(call.name, station.name.ja)
    \/ Contains(call.name, station.name.kana)
    \/ ContainsIgnoringCase(call.name, station.name.en)

\* C4: search_stations_by_name returns exactly the stations whose ja or kana
\* name has the query as a substring, or whose en name has it as a substring
\* ignoring case, in dataset order; the empty query returns the whole dataset.
C4_SearchByName ==
    call.op = "search_stations_by_name" =>
        /\ ret = SelectSeq(Directory, NameSelected)
        /\ call.name = << >> => ret = Directory

\* A query that differs in case from the en name it matches.
C4_Witness ==
    /\ call.op = "search_stations_by_name"
    /\ call.name = <<"t", "O">>
    /\ Len(ret) = 1
    /\ ret[1].name.en = <<"T", "o", "k", "y", "o">>

\* C5: with limit and offset not negative, list_all_stations returns the
\* min(limit, max(0, total - offset)) stations that follow the first offset
\* ones, reports that count and the size of the whole directory as total, and
\* returns an empty list for an offset beyond the directory.
C5_Pagination ==
    call.op = "list_all_stations" =>
        LET limit == ArgGet(call.arguments, "limit", DEFAULT_LIMIT)
            offset == ArgGet(call.arguments, "offset", DEFAULT_OFFSET)
            total == Len(Directory)
            count == Min(limit, Max(0, total - offset))
        IN  (limit >= 0 /\ offset >= 0) =>
                /\ ~IsRaised(ret)
                /\ ret.total = total
                /\ ret.count = count
                /\ Len(ret.stations) = count
                /\ \A i \in 1..count : ret.stations[i] = Directory[offset + i]
                /\ offset >= total => ret.stations = << >>

\* The last page: fewer stations are left after the offset than the limit asks
\* for.
C5_Witness ==
    /\ call.op = "list_all_stations"
    /\ "limit" \in DOMAIN call.arguments
    /\ "offset" \in DOMAIN call.arguments
    /\ call.arguments["offset"] > 0
    /\ call.arguments["offset"] < Len(Directory)
    /\ call.arguments["limit"] > Len(Directory) - call.arguments["offset"]
    /\ ret.count = Len(Directory) - call.arguments["offset"]

C6_ParseObservationValue ==
    call.op = "parse_observation_value" =>
        /\ call.value = None => ret = None
        /\ (call.value # None /\ Len(call.value.v) = 2) =>
               LET val == call.value.v[1]
                   quality == call.value.v[2]
               IN  /\ (val = None \/ quality = None) => ret = None
                   /\ (val # None /\ quality # None) => ret = val

\* The value 0 with a flag that is not null was returned as 0.
C6_Witness ==
    /\ call.op = "parse_observation_value"
    /\ call.value # None
    /\ Len(call.value.v) = 2
    /\ call.value.v[1] = Num(0)
    /\ call.value.v[2] = Num(10)
    /\ ret = Num(0)

\* A call of fetch_amedas_data for one station whose blob the upstream sent.
IsDecodeCall ==
    /\ call.op = "fetch_amedas_data"
    /\ ~IsRaised(call.response)
    /\ Truthy(call.station_code)
    /\ RawGet(call.response.v, call.station_code.v) # None

\* The blob of that call, and whether each of its entries is null or an array
\* of two items.
DecodedBlob == call.response.v[call.station_code.v]
WellFormed(data) == \A k \in DOMAIN data : data[k] = None \/ Len(data[k].v) = 2

\* The simple channels: the raw key and the key of the decoded record.
SimpleChannels ==
    {<<"temp", "temperature">>, <<"humidity", "humidity">>, <<"pressure", "pressure">>,
     <<"normalPressure", "sea_level_pressure">>, <<"sun1h", "sunshine">>}

\* The keys a decoded record has, given the raw keys of the blob.
ExpectedKeys(raw) ==
    {"code"}
    \cup {ch[2] : ch \in {c \in SimpleChannels : c[1] \in raw}}
    \cup (IF "wind" \in raw THEN {"wind"} ELSE {})
    \cup (IF raw \cap {"precipitation10m", "precipitation1h", "precipitation3h",
                      "precipitation24h"} # {}
          THEN {"precipitation"} ELSE {})
    \cup (IF raw \cap {"snow", "snow1h", "snow6h", "snow12h", "snow24h"} # {}
          THEN {"snow"} ELSE {})

\* The blob without the keys the decoder does not know.
KnownPart(data) == [k \in DOMAIN data \cap KnownRawKeys |-> data[k]]

\* C7: the keys of a decoded station record are fixed by the known raw keys
\* of the blob: a simple channel is there exactly if its raw key is, the
\* record of an empty blob holds the code alone and decoding it does not
\* raise, and the record is the one decoded from the blob without its unknown
\* keys.
C7_KeysFollowRawKeys ==
    (IsDecodeCall /\ WellFormed(DecodedBlob)) =>
        /\ ~IsRaised(ret)
        /\ LET record == ret.stations[call.station_code.v]
           IN  /\ DOMAIN record = ExpectedKeys(DOMAIN DecodedBlob)
               /\ \A ch \in SimpleChannels :
                      ch[2] \in DOMAIN record <=> ch[1] \in DOMAIN DecodedBlob
               /\ DecodedBlob = EmptyDict => record = ("code" :> call.station_code)
               /\ record = DecodeStation(call.station_code.v, KnownPart(DecodedBlob))

\* A blob of one known and one unknown key was decoded.
C7_Witness ==
    /\ IsDecodeCall
    /\ DOMAIN DecodedBlob = {"humidity", UNKNOWN_RAW_KEY}
    /\ DOMAIN ret.stations[call.station_code.v] = {"code", "humidity"}

\* A call whose blob has wind and a windDirection entry of a whole-numbered
\* code with a flag that is not null.
IsWholeDirectionCall ==
    /\ IsDecodeCall
    /\ WellFormed(DecodedBlob)
    /\ {"wind", "windDirection"} \subseteq DOMAIN DecodedBlob
    /\ DecodedBlob["windDirection"] # None
    /\ DecodedBlob["windDirection"].v[1] # None
    /\ DecodedBlob["windDirection"].v[2] # None
    /\ DecodedBlob["windDirection"].v[1].v % 10 = 0

DirectionCode == DecodedBlob["windDirection"].v[1].v \div 10

\* C8: a whole wind direction code from 1 to 16 decodes to its entry of the
\* English and of the localized table (16 to "N" and to the localized north),
\* and any other whole code to None for both; direction_code is the code.
C8_WindDirection ==
    IsWholeDirectionCall =>
        LET wind == ret.stations[call.station_code.v]["wind"]
        IN  /\ wind.direction_code = Num(10 * DirectionCode)
            /\ DirectionCode \in 1..16 =>
                   /\ wind.direction = Str(WIND_DIRECTIONS[DirectionCode])
                   /\ wind.direction_ja = Str(WIND_DIRECTIONS_JA[DirectionCode])
            /\ DirectionCode = 16 =>
                   wind.direction = Str("N") /\ wind.direction_ja = Str("kita")
            /\ DirectionCode \notin 1..16 =>
                   wind.direction = None /\ wind.direction_ja = None

\* The code 17 was decoded: no label, and the code kept.
C8_Witness ==
    /\ IsWholeDirectionCall
    /\ DirectionCode = 17
    /\ ret.stations[call.station_code.v]["wind"].direction = None
    /\ ret.stations[call.station_code.v]["wind"].direction_code = Num(170)

(***************************************************************************)
(* The time-series call: properties.                                       *)
(***************************************************************************)
\* A time-series call that has returned.
IsSeriesResult ==
    /\ call.op = "get_weather_time_series"
    /\ ~inflight.running
    /\ ret # None

RequestedInterval == ArgGet(call.arguments, "interval_minutes", DEFAULT_INTERVAL_MINUTES)
RequestedHours == ArgGet(call.arguments, "hours", DEFAULT_HOURS)

\* C10: for an interval of 10, 30 or 60 minutes the time-series call returns
\* at most ceil(hours * 60 / interval) points, their observation times
\* strictly decreasing along the series (so pairwise distinct), data_points
\* the length of the series, and the interval and the station code asked for;
\* this holds for every order in which the fetches complete.
C10_SeriesOrdered ==
    (IsSeriesResult /\ RequestedInterval \in {10, 30, 60}) =>
        /\ Len(ret.time_series) <= Ceil(RequestedHours * 60, RequestedInterval)
        /\ \A i, j \in 1..Len(ret.time_series) :
               i < j => IsoSeconds(ret.time_series[i].observation_time)
                        > IsoSeconds(ret.time_series[j].observation_time)
        /\ ret.data_points = Len(ret.time_series)
        /\ ret.interval_minutes = RequestedInterval
        /\ ret.station_code = call.arguments["station_code"]

\* A series of two points whose fetches completed latest-timestamp last.
C10_Witness ==
    /\ IsSeriesResult
    /\ Len(ret.time_series) = 2
    /\ RequestedInterval = 30
    /\ Len(inflight.arrived) >= 2
    /\ inflight.arrived[1].index > inflight.arrived[2].index
    /\ ~IsRaised(inflight.arrived[1].result)
    /\ ~IsRaised(inflight.arrived[2].result)

\* The fetches of the returned series whose GET failed or whose payload holds
\* a malformed blob for the station asked for, and the others, by their place
\* in the order of arrival.
FailedFetches ==
    {i \in 1..Len(inflight.arrived) :
        \/ IsRaised(inflight.arrived[i].response)
        \/ RawGet(inflight.arrived[i].response.v, inflight.request.station_code)
              = MalformedBlob}
SucceededFetches == (1..Len(inflight.arrived)) \ FailedFetches

\* C11: in the time-series call a fetch that fails (a network error, a 404, a
\* malformed payload) takes only its own point away: every fetch completes, the
\* call returns a result and no error, the series holds exactly the timestamps
\* whose fetch succeeded, and when every fetch fails the result has zero data
\* points.
C11_PartialFailure ==
    IsSeriesResult =>
        /\ ~IsRaised(ret)
        /\ "error" \notin DOMAIN ret
        /\ {inflight.arrived[i].index : i \in 1..Len(inflight.arrived)}
               = 1..Len(inflight.timestamps)
        /\ {ret.time_series[i].observation_time : i \in 1..Len(ret.time_series)}
               = {IsoFormat(inflight.timestamps[inflight.arrived[i].index]) :
                      i \in SucceededFetches}
        /\ ret.data_points = Cardinality(SucceededFetches)
        /\ SucceededFetches = {} => (ret.data_points = 0 /\ ret.time_series = << >>)

\* Of three fetches the first to arrive failed with a 404, the second had a
\* malformed payload, and the third gave the one point of the series.
C11_Witness ==
    /\ IsSeriesResult
    /\ Len(inflight.arrived) = 3
    /\ IsRaised(inflight.arrived[1].response)
    /\ inflight.arrived[2].response = Json(TOKYO :> MalformedBlob)
    /\ SucceededFetches = {3}
    /\ ret.data_points = 1

(***************************************************************************)
(* The wind direction and the composite channels: properties.              *)
(***************************************************************************)
\* A call whose blob has wind and a windDirection entry of a code that is not
\* a whole number, with a flag that is not null.
IsFractionalDirectionCall ==
    /\ IsDecodeCall
    /\ WellFormed(DecodedBlob)
    /\ {"wind", "windDirection"} \subseteq DOMAIN DecodedBlob
    /\ DecodedBlob["windDirection"] # None
    /\ DecodedBlob["windDirection"].v[1] # None
    /\ DecodedBlob["windDirection"].v[2] # None
    /\ DecodedBlob["windDirection"].v[1].v % 10 # 0

RawDirection == DecodedBlob["windDirection"].v[1]
DecodedWind == ret.stations[call.station_code.v]["wind"]

\* The whole part of a number of tenths, toward zero.
WholePart(x) == IF x >= 0 THEN x \div 10 ELSE -((-x) \div 10)

PrecipitationFields ==
    ("precipitation10m" :> "10min") @@ ("precipitation1h" :> "1h")
    @@ ("precipitation3h" :> "3h") @@ ("precipitation24h" :> "24h")
SnowFields ==
    ("snow" :> "depth") @@ ("snow1h" :> "1h") @@ ("snow6h" :> "6h")
    @@ ("snow12h" :> "12h") @@ ("snow24h" :> "24h")
WindFields == ("wind" :> "speed") @@ ("windDirection" :> "direction_code")

\* What a raw entry of two items decodes to.
DecodedValue(entry) ==
    IF entry = None THEN None
    ELSE IF entry.v[1] = None \/ entry.v[2] = None THEN None
    ELSE entry.v[1]

\* What a windDirection entry decodes to as direction_code.
DecodedDirectionCode(entry) ==
    IF DecodedValue(entry) = None THEN None
    ELSE Num(10 * WholePart(DecodedValue(entry).v))

DecodedRecord == ret.stations[call.station_code.v]

\* A sub-object of window fields is there exactly if one of its raw keys is,
\* and has exactly the fields of the raw keys present, each decoded from its
\* own entry.
WindowsIndependent(key, fields) ==
    LET present == DOMAIN fields \cap DOMAIN DecodedBlob
    IN  /\ key \in DOMAIN DecodedRecord <=> present # {}
        /\ present # {} =>
               /\ DOMAIN DecodedRecord[key] = {fields[k] : k \in present} \cup {"unit"}
               /\ \A k \in present :
                      DecodedRecord[key][fields[k]] = DecodedValue(DecodedBlob[k])

\* C20 as stated: each composite sub-object is emitted only if one of its raw
\* keys is present, and each field is decoded from its own raw entry whatever
\* the other keys: the wind direction whenever windDirection is present, the
\* wind speed whenever wind is.
C20_FieldsIndependent ==
    (IsDecodeCall /\ WellFormed(DecodedBlob)) =>
        /\ WindowsIndependent("precipitation", PrecipitationFields)
        /\ WindowsIndependent("snow", SnowFields)
        /\ "wind" \in DOMAIN DecodedRecord => DOMAIN WindFields \cap DOMAIN DecodedBlob # {}
        /\ "wind" \in DOMAIN DecodedBlob =>
               /\ "wind" \in DOMAIN DecodedRecord
               /\ DecodedRecord["wind"].speed = DecodedValue(DecodedBlob["wind"])
        /\ "windDirection" \in DOMAIN DecodedBlob =>
               /\ "wind" \in DOMAIN DecodedRecord
               /\ DecodedRecord["wind"].direction_code
                      = DecodedDirectionCode(DecodedBlob["windDirection"])

\* C20 amended: the precipitation and the snow sub-object are emitted exactly
\* if one of their raw keys is present, with the field of each present key
\* decoded from that key's entry alone; the wind sub-object is emitted exactly
\* if the wind key is present, its speed decoded from wind and its direction
\* from windDirection (null if that key is absent); with windDirection and no
\* wind key there is no wind sub-object and the direction is not decoded.
C20_CompositeChannels ==
    (IsDecodeCall /\ WellFormed(DecodedBlob)) =>
        /\ WindowsIndependent("precipitation", PrecipitationFields)
        /\ WindowsIndependent("snow", SnowFields)
        /\ "wind" \in DOMAIN DecodedRecord <=> "wind" \in DOMAIN DecodedBlob
        /\ "wind" \in DOMAIN DecodedBlob =>
               /\ DecodedRecord["wind"].speed = DecodedValue(DecodedBlob["wind"])
               /\ DecodedRecord["wind"].direction_code
                      = (IF "windDirection" \in DOMAIN DecodedBlob
                         THEN DecodedDirectionCode(DecodedBlob["windDirection"])
                         ELSE None)

\* A blob of snow1h and windDirection alone: a snow sub-object of one field,
\* and no wind sub-object.
C20_Witness ==
    /\ IsDecodeCall
    /\ DOMAIN DecodedBlob = {"snow1h", "windDirection"}
    /\ DecodedBlob["windDirection"] = List(<<Num(160), Num(0)>>)
    /\ DecodedBlob["snow1h"] = List(<<Num(105), Num(0)>>)
    /\ DOMAIN DecodedRecord = {"code", "snow"}
    /\ DOMAIN DecodedRecord["snow"] = {"1h", "unit"}

(***************************************************************************)
(* The tool calls: properties.                                             *)
(***************************************************************************)
IsToolCall(name) == call.op = "call_tool" /\ call.name = name

\* The result of a tool call is a JSON object with an error field.
HasErrorField(result) == result.t = "dumps" /\ "error" \in DOMAIN result.payload

\* The area code the table of the source gives for a prefecture key.
TableAreaCode(prefecture) ==
    (CHOOSE pair \in {AreaCodePairs[i] : i \in 1..Len(AreaCodePairs)} :
        pair[1] = prefecture)[2]

\* C12: get_forecast with a prefecture key that is not in the table returns an
\* error payload whose available field lists all 47 keys of the table, and
\* makes no forecast fetch; with a key of the table it makes one fetch, of that
\* key's area code.
C12_Forecast ==
    (IsToolCall("get_forecast") /\ "prefecture" \in DOMAIN call.arguments) =>
        LET prefecture == call.arguments["prefecture"]
            known == {AreaCodePairs[i][1] : i \in 1..Len(AreaCodePairs)}
        IN  /\ prefecture \notin known =>
                   /\ HasErrorField(ret.result)
                   /\ Len(ret.result.payload.available) = 47
                   /\ {ret.result.payload.available[i] : i \in 1..47} = known
                   /\ Cardinality(known) = 47
                   /\ ret.fetches = << >>
            /\ prefecture \in known =>
                   /\ Len(ret.fetches) = 1
                   /\ ret.fetches[1] = ForecastFetch(TableAreaCode(prefecture))
                   /\ ~IsRaised(call.response) =>
                          /\ ~HasErrorField(ret.result)
                          /\ ret.result.payload.area_code = TableAreaCode(prefecture)

\* An unknown prefecture was asked for while the upstream was reachable.
C12_Witness ==
    /\ IsToolCall("get_forecast")
    /\ "prefecture" \in DOMAIN call.arguments
    /\ call.arguments["prefecture"] = UNKNOWN_PREFECTURE
    /\ ~IsRaised(call.response)
    /\ HasErrorField(ret.result)
    /\ ret.fetches = << >>

\* The stations of the directory within 100 km of the point of the call, by
\* their place in the directory.
IsLocationToolCall ==
    IsToolCall("get_weather_by_location") /\ {"lat", "lon"} \subseteq DOMAIN call.arguments
PointDistance(i) ==
    Haversine(call.arguments["lat"], call.arguments["lon"],
              Directory[i].location.lat, Directory[i].location.lon)
WithinNearbyRadius == {i \in 1..Len(Directory) : PointDistance(i) <= 100 * Scale}

IsUnknownCode(code) == code # "" /\ code \notin {Directory[i].code : i \in 1..Len(Directory)}

IsUnknownStationCall ==
    /\ IsToolCall("get_station")
    /\ "code" \in DOMAIN call.arguments
    /\ IsUnknownCode(call.arguments["code"])

\* get_current_weather for a code the directory lacks, the fetch succeeding.
IsUnknownWeatherCall ==
    /\ IsToolCall("get_current_weather")
    /\ "station_code" \in DOMAIN call.arguments
    /\ IsUnknownCode(call.arguments["station_code"])
    /\ ~IsRaised(fetch_amedas_data(call.now, Str(call.arguments["station_code"]), None,
                                   call.response))

IsUnknownPrefectureCall ==
    /\ IsToolCall("get_forecast")
    /\ "prefecture" \in DOMAIN call.arguments
    /\ call.arguments["prefecture"] \notin {AreaCodePairs[i][1] : i \in 1..Len(AreaCodePairs)}

IsNoStationNearCall == IsLocationToolCall /\ WithinNearbyRadius = {}

\* C16 as stated: every not-found condition (unknown station code, unknown
\* prefecture key, no station within the radius) is returned by the tool
\* handler as a result with an error field; so in get_station and in
\* get_current_weather with a code that is not in the directory.
C16_NotFoundIsError ==
    (IsUnknownStationCall \/ IsUnknownWeatherCall \/ IsUnknownPrefectureCall
     \/ IsNoStationNearCall) => HasErrorField(ret.result)

\* C16 amended: no not-found condition is an exception.  An unknown prefecture
\* key and a point with no station within 100 km give a JSON result with an
\* error field and no fetch.  An unknown station code gives no error field:
\* get_station returns the plain text "Station with code '<code>' not found.",
\* and get_current_weather returns the fetched snapshot as it is, without
\* station_info, its stations holding at most the code asked for.
C16_NotFoundResults ==
    /\ IsUnknownStationCall =>
           /\ ret.result = Text(<<"Station with code '", call.arguments["code"],
                                  "' not found.">>)
           /\ ret.fetches = << >>
    /\ IsUnknownWeatherCall =>
           /\ ret.result.t = "dumps"
           /\ DOMAIN ret.result.payload
                  = {"observation_time", "observation_time_jst", "stations"}
           /\ DOMAIN ret.result.payload.stations \subseteq {call.arguments["station_code"]}
    /\ IsUnknownPrefectureCall =>
           /\ HasErrorField(ret.result)
           /\ "available" \in DOMAIN ret.result.payload
           /\ ret.fetches = << >>
    /\ IsNoStationNearCall =>
           /\ HasErrorField(ret.result)
           /\ ret.fetches = << >>

\* get_station was asked for a code the directory lacks and answered in text.
C16_Witness ==
    /\ IsUnknownStationCall
    /\ call.arguments["code"] = UNKNOWN_CODE
    /\ ret.result.t = "text"

\* The single-point tools, and the subcommands of the command line that run
\* them.
SinglePointTools ==
    {"get_current_weather", "get_weather_by_location", "get_forecast",
     "get_historical_weather"}
IsCliCall == call.op = "cli.main"
IsSinglePointCliCall ==
    /\ IsCliCall
    /\ ret.parsing = "parsed"
    /\ \/ call.argv[1] \in {"weather", "forecast"}
       \/ call.argv[1] = "history" /\ call.argv[2] = "get"

\* C18: in the single-point operations a failure of the upstream (transport
\* error, status that is not 2xx, body that is not JSON) is not dropped: a
\* tool call that fetched returns {error: message, tool: name} and no data; a
\* run of the command line that fetched prints {error: message} and exits
\* with 2.
C18_UpstreamFailure ==
    /\ (/\ call.op = "call_tool"
        /\ call.name \in SinglePointTools
        /\ ret.fetches # << >>
        /\ IsRaised(call.response)) =>
           ret.result = Dumps([error |-> Str(call.response.exc), tool |-> call.name])
    /\ (/\ IsSinglePointCliCall
        /\ ret.fetches # << >>
        /\ IsRaised(call.response)) =>
           /\ ret.exit_code = 2
           /\ ret.stdout = <<Dumps([error |-> Str(call.response.exc)])>>

\* get_historical_weather fetched, the upstream answered with an error
\* status, and the tool returned an error.
C18_Witness ==
    /\ IsToolCall("get_historical_weather")
    /\ Len(ret.fetches) = 1
    /\ call.response = Raised("HTTPStatusError")
    /\ HasErrorField(ret.result)

(***************************************************************************)
(* The command line and the entry point: properties.                       *)
(***************************************************************************)
\* stdout carries one JSON document; one that is {error: message}.
IsJsonOutput(stdout) == Len(stdout) = 1 /\ stdout[1].t = "dumps"
IsErrorOutput(stdout) == IsJsonOutput(stdout) /\ DOMAIN stdout[1].payload = {"error"}

HelpRequested(argv) == \E i \in 1..Len(argv) : argv[i] \in HELP_FLAGS

\* C14 as stated: a run of the command line returns 0 exactly when parsing
\* and the handler both succeed, returns 2 with {error: message} on stdout
\* when parsing fails or the handler raises, and prints nothing but JSON.
C14_ExitCodes ==
    IsCliCall =>
        /\ ret.exit_code = 0 <=> (ret.parsing = "parsed" /\ ret.handler = "returned")
        /\ (ret.parsing # "parsed" \/ ret.handler = "raised") =>
               (ret.exit_code = 2 /\ IsErrorOutput(ret.stdout))
        /\ IsJsonOutput(ret.stdout)

\* C14 amended: a run of the command line returns 0 exactly when parsing and
\* the handler both succeed or parsing ends at -h or --help; at a help flag
\* the usage text, which is not JSON, is printed and no handler runs; it
\* returns 2 with {error: message} on stdout when parsing fails or the handler
\* raises; nothing but the usage text is printed that is not JSON.
C14_ExitCodesOrHelp ==
    IsCliCall =>
        /\ ret.exit_code \in {0, 2}
        /\ ret.exit_code = 0 <=>
               \/ ret.parsing = "parsed" /\ ret.handler = "returned"
               \/ ret.parsing = "exit"
        /\ (ret.parsing = "error" \/ ret.handler = "raised") =>
               (ret.exit_code = 2 /\ IsErrorOutput(ret.stdout))
        /\ (ret.parsing = "parsed" /\ ret.handler = "returned") => IsJsonOutput(ret.stdout)
        /\ ret.parsing = "exit" <=> ~IsJsonOutput(ret.stdout)
        /\ ret.parsing = "exit" =>
               /\ HelpRequested(call.argv)
               /\ ret.stdout = <<Text("usage")>>
               /\ ret.handler = "not run"
               /\ ret.fetches = << >>

\* The help of a subcommand was asked for.
C14_Witness ==
    /\ IsCliCall
    /\ call.argv = <<"station", "get", "--help">>
    /\ ret.exit_code = 0
    /\ ~IsJsonOutput(ret.stdout)

IsEntrypointCall == call.op = "entrypoint.main"

\* C15: the entry point dispatches on the first argument alone: without
\* arguments, or with "serve" first, it runs the server once and never the
\* command line, and returns 0 if the server returns; with another first
\* argument it runs the command line once, with all the arguments, and never
\* the server, and returns the exit code of the command line.
C15_Dispatch ==
    IsEntrypointCall =>
        /\ Len(ret.runs) = 1
        /\ (call.argv = << >> \/ call.argv[1] = "serve") =>
               /\ ret.runs[1].program = "server"
               /\ call.ending.t = "returned" => ret.exit_code = 0
        /\ (call.argv # << >> /\ call.argv[1] # "serve") =>
               /\ ret.runs[1].program = "cli"
               /\ ret.runs[1].argv = call.argv
               /\ ret.exit_code = ret.runs[1].result.exit_code

\* "serve" stood second: the command line ran, and rejected it.
C15_Witness ==
    /\ IsEntrypointCall
    /\ call.argv = <<"station", "serve">>
    /\ ret.runs[1].program = "cli"
    /\ ret.exit_code = 2

\* A datetime no format of the handler reads, and an interval outside the
\* closed set.
VALID_INTERVALS == {10, 30, 60}
IsBadDatetimeCall ==
    /\ IsToolCall("get_historical_weather")
    /\ {"station_code", "datetime"} \subseteq DOMAIN call.arguments
    /\ IsRaised(ParseTargetTime(call.arguments["datetime"]))
IsBadIntervalCall ==
    /\ call.op = "get_weather_time_series"
    /\ TimeSeriesRequest(call.arguments).interval_minutes \notin VALID_INTERVALS
IsBadDatetimeCliCall ==
    /\ IsCliCall
    /\ call.argv = <<"history", "get", "--station-code", TOKYO,
                     "--target-datetime", "yesterday">>
IsBadIntervalCliCall ==
    /\ IsCliCall
    /\ call.argv = <<"history", "series", "--station-code", TOKYO, "--hours", "1",
                     "--interval-minutes", "20">>

\* C17 as stated: get_historical_weather with a datetime that cannot be
\* parsed, and get_weather_time_series with an interval outside {10, 30, 60},
\* return {error, hint} and make no fetch, as tool calls and on the command
\* line.
C17_ValidationRejected ==
    /\ IsBadDatetimeCall =>
           /\ HasErrorField(ret.result)
           /\ "hint" \in DOMAIN ret.result.payload
           /\ ret.fetches = << >>
    /\ IsBadIntervalCall =>
           /\ inflight.running => inflight.timestamps = << >>
           /\ ~inflight.running =>
                  /\ {"error", "hint"} \subseteq DOMAIN ret
                  /\ inflight.arrived = << >>
    /\ (IsBadDatetimeCliCall \/ IsBadIntervalCliCall) =>
           /\ IsJsonOutput(ret.stdout)
           /\ {"error", "hint"} \subseteq DOMAIN ret.stdout[1].payload
           /\ ret.fetches = << >>

(***************************************************************************)
(* The observation time of a snapshot and the URL that was queried.        *)
(***************************************************************************)
\* A call of fetch_amedas_data that returned a snapshot.
IsSnapshotReturned == call.op = "fetch_amedas_data" /\ ~IsRaised(ret)

\* The datetime an isoformat() string denotes, and the one the
\* {YYYYMMDDHHMM00} of the URL denotes.
IsoTime(iso) == DateTime(iso[1], iso[2], iso[3], iso[4], iso[5])
UrlTime(url) == DateTime(url[1], url[2], url[3], url[4], 0)

IsTenMinuteAligned(dt) == dt.minute % 10 = 0 /\ dt.second = 0 /\ dt.microsecond = 0

\* C21 as stated: the observation_time of every snapshot fetch_amedas_data
\* returns is on a 10-minute boundary (minute a multiple of 10, seconds zero)
\* and is the timestamp of the URL that was queried, whether the time
\* defaulted to the latest data time or was supplied by the caller.
C21_ObservationAligned ==
    IsSnapshotReturned =>
        /\ IsTenMinuteAligned(IsoTime(ret.observation_time))
        /\ IsoTime(ret.observation_time) = UrlTime(call.url)

(***************************************************************************)
(* The station directory is loaded once and never written.                 *)
(***************************************************************************)
DirectoryRecords == {Directory[i] : i \in 1..Len(Directory)}

Elements(list) == {list[i] : i \in 1..Len(list)}

\* The station records a lookup of the directory handed to its caller: by
\* the functions of stations.py, by list_all_stations, and by the tools
\* get_station and get_current_weather (the merged station_info).
ReturnedStations ==
    CASE call.op = "get_station" -> IF ret = None THEN {} ELSE {ret}
      [] call.op \in {"search_stations_by_name", "get_stations_by_type",
                      "get_all_stations"} -> Elements(ret)
      [] call.op = "list_all_stations" -> Elements(ret.stations)
      [] call.op = "call_tool" /\ call.name = "get_station" ->
            IF ret.result.t = "dumps" /\ "error" \notin DOMAIN ret.result.payload
            THEN {ret.result.payload} ELSE {}
      [] call.op = "call_tool" /\ call.name = "get_current_weather" ->
            IF ret.result.t = "dumps" /\ "station_info" \in DOMAIN ret.result.payload
            THEN {ret.result.payload.station_info} ELSE {}
      [] OTHER -> {}

\* C22: the directory is loaded at most once and never written afterwards:
\* the cache is empty or holds the keys and the records of the file, a loaded
\* cache is left as it is by every step, and every record a lookup returns is
\* a record of the file, without distance_km, station_info or weather.
C22_DirectoryReadOnly ==
    /\ [](/\ stations_cache = None \/ stations_cache = STATIONS_FILE
          /\ ReturnedStations \subseteq DirectoryRecords)
    /\ [][stations_cache # None => stations_cache' = stations_cache]_vars

\* A search by location has returned records annotated with distance_km, and
\* the loaded directory is the file's.
C22_Witness ==
    /\ call.op = "search_stations_by_location"
    /\ ret # << >>
    /\ "distance_km" \in DOMAIN ret[1]
    /\ stations_cache = STATIONS_FILE

====
